---------------------------- MODULE Spec2Model ----------------------------
(***************************************************************************)
(* Model of the memoryparasite runtime: the rigid-body physics             *)
(* (src/engine/physics.py), the narrow-phase collision tests and the       *)
(* impulse resolver (src/engine/collision.py) and the software audio mixer *)
(* (src/engine/sound.py).                                                  *)
(*                                                                         *)
(* Numbers.  Python floats are modelled by exact rationals <<n, d>> with   *)
(* d > 0 in lowest terms.  math.sqrt is modelled by the exact root; the    *)
(* inputs are drawn from points whose distances are rational (axis-aligned *)
(* offsets and 3-4-5 triangles), and the evaluation stops with an error    *)
(* instead of rounding if a root that is not rational is ever needed.      *)
(* 16-bit PCM samples keep their width.                                    *)
(***************************************************************************)
EXTENDS Integers, Sequences, FiniteSets, TLC

(***************************************************************************)
(* Bounds of the model.                                                    *)
(***************************************************************************)
MaxSteps == 3

(***************************************************************************)
(* Exact rational arithmetic standing in for float arithmetic.             *)
(***************************************************************************)
RECURSIVE GCD(_, _)
GCD(a, b) == IF b = 0 THEN a ELSE GCD(b, a % b)

Abs(i) == IF i < 0 THEN -i ELSE i

\* the rationals as pairs; the operations are functions, so that an argument is
\* evaluated once, like the operand of a float operation
Rat == Int \X Int

Q[n \in Int, d \in Int] ==
    LET s == IF d < 0 THEN -1 ELSE 1
        g == GCD(Abs(n), Abs(d))
    IN  <<(s * n) \div g, (s * d) \div g>>

R(i) == <<i, 1>>

\* the common factors are taken out before the products, which keeps the
\* intermediate integers small
RatAdd[a \in Rat, b \in Rat] ==
    LET g == GCD(a[2], b[2])
    IN  Q[a[1] * (b[2] \div g) + b[1] * (a[2] \div g), (a[2] \div g) * b[2]]
RatSub[a \in Rat, b \in Rat] ==
    LET g == GCD(a[2], b[2])
    IN  Q[a[1] * (b[2] \div g) - b[1] * (a[2] \div g), (a[2] \div g) * b[2]]
RatMul[a \in Rat, b \in Rat] ==
    LET g1 == GCD(Abs(a[1]), Abs(b[2]))
        g2 == GCD(Abs(b[1]), Abs(a[2]))
    IN  Q[(a[1] \div g1) * (b[1] \div g2), (a[2] \div g2) * (b[2] \div g1)]
RatNeg[a \in Rat] == <<-a[1], a[2]>>
\* defined only for b # 0; the callers model Python's ZeroDivisionError
RatDiv[a \in Rat, b \in Rat] == RatMul[a, <<b[2], b[1]>>]
RatLt[a \in Rat, b \in Rat] ==
    LET g == GCD(a[2], b[2])
    IN  a[1] * (b[2] \div g) < b[1] * (a[2] \div g)
RatLe[a \in Rat, b \in Rat] ==
    LET g == GCD(a[2], b[2])
    IN  a[1] * (b[2] \div g) <= b[1] * (a[2] \div g)
RatMin[a \in Rat, b \in Rat] == IF RatLe[a, b] THEN a ELSE b
RatMax[a \in Rat, b \in Rat] == IF RatLe[b, a] THEN a ELSE b

RAdd(a, b) == RatAdd[a, b]
RSub(a, b) == RatSub[a, b]
RMul(a, b) == RatMul[a, b]
RNeg(a) == RatNeg[a]
RDiv(a, b) == RatDiv[a, b]
RLt(a, b) == RatLt[a, b]
RLe(a, b) == RatLe[a, b]
RMin(a, b) == RatMin[a, b]
RMax(a, b) == RatMax[a, b]
RZero == R(0)
ROne == R(1)

\* exact integer square root; undefined (an evaluation error) when i is not a square
ISqrt(i) == CHOOSE r \in 0..i : r * r = i
IsSquare(i) == \E r \in 0..i : r * r = i
\* math.sqrt on a non-negative rational in lowest terms
RSqrt(a) == <<ISqrt(a[1]), ISqrt(a[2])>>

(***************************************************************************)
(* Vec2 (src/engine/physics.py).                                           *)
(***************************************************************************)
Vec2(x, y) == [x |-> x, y |-> y]
VZero == Vec2(RZero, RZero)
VI(i, j) == Vec2(R(i), R(j))

Vec2_add(a, b) == Vec2(RAdd(a.x, b.x), RAdd(a.y, b.y))
Vec2_sub(a, b) == Vec2(RSub(a.x, b.x), RSub(a.y, b.y))
Vec2_mul(a, s) == Vec2(RMul(a.x, s), RMul(a.y, s))
Vec2_dot(a, b) == RAdd(RMul(a.x, b.x), RMul(a.y, b.y))
Vec2_length_squared(a) == RAdd(RMul(a.x, a.x), RMul(a.y, a.y))
Vec2_length(a) == RSqrt(Vec2_length_squared(a))
Vec2_normalized(a) ==
    LET ln == Vec2_length(a)
    IN  IF ln = RZero THEN VZero
        ELSE Vec2(RDiv(a.x, ln), RDiv(a.y, ln))

(***************************************************************************)
(* RigidBody (src/engine/physics.py).                                      *)
(***************************************************************************)
RigidBody(pos, vel, mass, drag, restitution, is_static) ==
    [position |-> pos, velocity |-> vel, acceleration |-> VZero,
     mass |-> mass, drag |-> drag, restitution |-> restitution,
     is_static |-> is_static]

apply_force(body, force) ==
    IF body.is_static THEN body
    ELSE [body EXCEPT !.acceleration =
              Vec2_add(body.acceleration, Vec2_mul(force, RDiv(ROne, body.mass)))]

apply_impulse_unguarded(body, impulse) ==
    [body EXCEPT !.velocity =
        Vec2_add(body.velocity, Vec2_mul(impulse, RDiv(ROne, body.mass)))]

apply_impulse(body, impulse) ==
    IF body.is_static THEN body
    ELSE [body EXCEPT !.velocity =
              Vec2_add(body.velocity, Vec2_mul(impulse, RDiv(ROne, body.mass)))]

RigidBody_update_without_drag(body, dt) ==
    IF body.is_static THEN body
    ELSE LET v2 == Vec2_add(body.velocity, Vec2_mul(body.acceleration, dt))
             p2 == Vec2_add(body.position, Vec2_mul(v2, dt))
         IN  [body EXCEPT !.velocity = v2, !.position = p2,
                          !.acceleration = VZero]

RigidBody_update(body, dt) ==
    IF body.is_static THEN body
    ELSE LET v1 == Vec2_mul(body.velocity, RSub(ROne, body.drag))
             v2 == Vec2_add(v1, Vec2_mul(body.acceleration, dt))
             p2 == Vec2_add(body.position, Vec2_mul(v2, dt))
         IN  [body EXCEPT !.velocity = v2, !.position = p2,
                          !.acceleration = VZero]

(***************************************************************************)
(* CollisionInfo and the narrow-phase tests (src/engine/collision.py).     *)
(* An Optional value is a sequence: <<>> is None, <<v>> is the value v.    *)
(***************************************************************************)
None == <<>>
Some(v) == <<v>>

CollisionInfo(hit, normal, depth, point) ==
    [hit |-> hit, normal |-> normal, depth |-> depth, point |-> point]
NoHit == CollisionInfo(FALSE, None, RZero, None)

\* sqrt(lsq) >= r, decided without taking the root
LenGe(lsq, r) == RLe(r, RZero) \/ RLe(RMul(r, r), lsq)

circle_vs_circle_hit_at_centre(pos_a, radius_a, pos_b, radius_b) ==
    LET diff == Vec2_sub(pos_b, pos_a)
        lsq == Vec2_length_squared(diff)
        min_dist == RAdd(radius_a, radius_b)
    IN  ~LenGe(lsq, min_dist) /\ (lsq # RZero \/ RLe(radius_b, radius_a))

\* the hit flag of circle_vs_circle: not (dist >= min_dist or dist == 0)
circle_vs_circle_hit(pos_a, radius_a, pos_b, radius_b) ==
    LET diff == Vec2_sub(pos_b, pos_a)
        lsq == Vec2_length_squared(diff)
        min_dist == RAdd(radius_a, radius_b)
    IN  ~(LenGe(lsq, min_dist) \/ lsq = RZero)

circle_vs_circle(pos_a, radius_a, pos_b, radius_b) ==
    IF ~circle_vs_circle_hit(pos_a, radius_a, pos_b, radius_b) THEN NoHit
    ELSE LET diff == Vec2_sub(pos_b, pos_a)
             dist == Vec2_length(diff)
             min_dist == RAdd(radius_a, radius_b)
             normal == Vec2_normalized(diff)
             depth == RSub(min_dist, dist)
             point == Vec2_add(pos_a, Vec2_mul(normal, radius_a))
         IN  CollisionInfo(TRUE, Some(normal), depth, Some(point))

\* closest point of the rectangle to the circle centre
closest_point(circle_pos, rect_x, rect_y, rect_w, rect_h) ==
    Vec2(RMax(rect_x, RMin(circle_pos.x, RAdd(rect_x, rect_w))),
         RMax(rect_y, RMin(circle_pos.y, RAdd(rect_y, rect_h))))

circle_vs_rect_hit_apart_only(circle_pos, radius, rect_x, rect_y, rect_w, rect_h) ==
    LET closest == closest_point(circle_pos, rect_x, rect_y, rect_w, rect_h)
        lsq == Vec2_length_squared(Vec2_sub(circle_pos, closest))
    IN  ~(LenGe(lsq, radius) \/ lsq = RZero)

\* the hit flag of circle_vs_rect: not (dist >= radius)
circle_vs_rect_hit(circle_pos, radius, rect_x, rect_y, rect_w, rect_h) ==
    LET closest == closest_point(circle_pos, rect_x, rect_y, rect_w, rect_h)
        diff == Vec2_sub(circle_pos, closest)
    IN  ~LenGe(Vec2_length_squared(diff), radius)

circle_vs_rect(circle_pos, radius, rect_x, rect_y, rect_w, rect_h) ==
    IF ~circle_vs_rect_hit(circle_pos, radius, rect_x, rect_y, rect_w, rect_h)
    THEN NoHit
    ELSE LET closest == closest_point(circle_pos, rect_x, rect_y, rect_w, rect_h)
             diff == Vec2_sub(circle_pos, closest)
         IN  IF Vec2_length_squared(diff) = RZero
             THEN LET dl == RSub(circle_pos.x, rect_x)
                      dr == RSub(RAdd(rect_x, rect_w), circle_pos.x)
                      dt == RSub(circle_pos.y, rect_y)
                      db == RSub(RAdd(rect_y, rect_h), circle_pos.y)
                      min_p == RMin(RMin(dl, dr), RMin(dt, db))
                  IN  IF min_p = dl
                      THEN CollisionInfo(TRUE, Some(VI(-1, 0)),
                                         RAdd(radius, min_p), Some(closest))
                      ELSE IF min_p = dr
                      THEN CollisionInfo(TRUE, Some(VI(1, 0)),
                                         RAdd(radius, dr), Some(closest))
                      ELSE IF min_p = dt
                      THEN CollisionInfo(TRUE, Some(VI(0, -1)),
                                         RAdd(radius, dt), Some(closest))
                      ELSE CollisionInfo(TRUE, Some(VI(0, 1)),
                                         RAdd(radius, db), Some(closest))
             ELSE LET dist == Vec2_length(diff)
                  IN  CollisionInfo(TRUE, Some(Vec2_normalized(diff)),
                                    RSub(radius, dist), Some(closest))

rect_vs_rect_tie_on_x(ax, ay, aw, ah, bx, by, bw, bh) ==
    LET overlap_x == RSub(RMin(RAdd(ax, aw), RAdd(bx, bw)), RMax(ax, bx))
        overlap_y == RSub(RMin(RAdd(ay, ah), RAdd(by, bh)), RMax(ay, by))
    IN  IF RLe(overlap_x, RZero) \/ RLe(overlap_y, RZero) THEN NoHit
        ELSE IF RLe(overlap_x, overlap_y)
        THEN CollisionInfo(TRUE, Some(Vec2(IF RLt(ax, bx) THEN R(1) ELSE R(-1), RZero)),
                           overlap_x, None)
        ELSE CollisionInfo(TRUE, Some(Vec2(RZero, IF RLt(ay, by) THEN R(1) ELSE R(-1))),
                           overlap_y, None)

rect_vs_rect(ax, ay, aw, ah, bx, by, bw, bh) ==
    LET overlap_x == RSub(RMin(RAdd(ax, aw), RAdd(bx, bw)), RMax(ax, bx))
        overlap_y == RSub(RMin(RAdd(ay, ah), RAdd(by, bh)), RMax(ay, by))
    IN  IF RLe(overlap_x, RZero) \/ RLe(overlap_y, RZero) THEN NoHit
        ELSE IF RLt(overlap_x, overlap_y)
        THEN CollisionInfo(TRUE, Some(Vec2(IF RLt(ax, bx) THEN R(1) ELSE R(-1), RZero)),
                           overlap_x, None)
        ELSE CollisionInfo(TRUE, Some(Vec2(RZero, IF RLt(ay, by) THEN R(1) ELSE R(-1))),
                           overlap_y, None)

(***************************************************************************)
(* resolve_collision.  The result is the two bodies and `raised`, TRUE     *)
(* when the division by inv_mass_a + inv_mass_b = 0 raises                 *)
(* ZeroDivisionError; the positions are already separated at that point.   *)
(***************************************************************************)
Truthy(opt) == Len(opt) > 0

separate_bodies(body_a, body_b, info) ==
    IF body_a.is_static /\ Truthy(info.normal)
    THEN <<body_a,
           [body_b EXCEPT !.position =
               Vec2_add(body_b.position, Vec2_mul(info.normal[1], info.depth))]>>
    ELSE IF body_b.is_static /\ Truthy(info.normal)
    THEN <<[body_a EXCEPT !.position =
               Vec2_sub(body_a.position, Vec2_mul(info.normal[1], info.depth))],
           body_b>>
    ELSE LET half_depth == RDiv(info.depth, R(2))
         IN  IF Truthy(info.normal)
             THEN <<[body_a EXCEPT !.position =
                        Vec2_sub(body_a.position, Vec2_mul(info.normal[1], half_depth))],
                    [body_b EXCEPT !.position =
                        Vec2_add(body_b.position, Vec2_mul(info.normal[1], half_depth))]>>
             ELSE <<body_a, body_b>>

resolve_collision(body_a, body_b, info) ==
    IF ~info.hit THEN [a |-> body_a, b |-> body_b, raised |-> FALSE]
    ELSE
    LET sep == separate_bodies(body_a, body_b, info)
        a1 == sep[1]
        b1 == sep[2]
        rel_vel == Vec2_sub(b1.velocity, a1.velocity)
    IN  IF ~Truthy(info.normal) THEN [a |-> a1, b |-> b1, raised |-> FALSE]
        ELSE
        LET normal == info.normal[1]
            vel_along_normal == Vec2_dot(rel_vel, normal)
            e == RMin(a1.restitution, b1.restitution)
            inv_mass_a == IF a1.is_static THEN RZero ELSE RDiv(ROne, a1.mass)
            inv_mass_b == IF b1.is_static THEN RZero ELSE RDiv(ROne, b1.mass)
            inv_sum == RAdd(inv_mass_a, inv_mass_b)
            j == RDiv(RMul(RNeg(RAdd(ROne, e)), vel_along_normal), inv_sum)
            impulse == Vec2_mul(normal, j)
            a2 == IF ~a1.is_static
                  THEN [a1 EXCEPT !.velocity =
                           Vec2_sub(a1.velocity, Vec2_mul(impulse, inv_mass_a))]
                  ELSE a1
            b2 == IF ~b1.is_static
                  THEN [b1 EXCEPT !.velocity =
                           Vec2_add(b1.velocity, Vec2_mul(impulse, inv_mass_b))]
                  ELSE b1
        IN  IF RLt(RZero, vel_along_normal)
            THEN [a |-> a1, b |-> b1, raised |-> FALSE]
            ELSE IF inv_sum = RZero
            THEN [a |-> a1, b |-> b1, raised |-> TRUE]
            ELSE [a |-> a2, b |-> b2, raised |-> FALSE]

(***************************************************************************)
(* State.                                                                  *)
(*   bodies       the RigidBody objects, by identity 1..2                  *)
(*   phys_bodies  PhysicsWorld.bodies, gravity  PhysicsWorld.gravity       *)
(*   circles      CollisionWorld.circles, a list of <<body, radius>>       *)
(*   rects        CollisionWorld.rects, a list of <<body, width, height>>  *)
(*   tests        the narrow-phase tests of the last check_and_resolve,    *)
(*                each with the pair, the bodies before it and its result  *)
(*   raised       an exception left the last call                          *)
(*   steps        number of engine calls so far                            *)
(*   op           the last operation performed and its arguments           *)
(* The audio mixer's state is described with its operations further down.  *)
(* The game objects (src/game): player, boss (EnemyManager.boss, an         *)
(* Optional), enemies (EnemyManager.enemies), platforms (the level's       *)
(* platforms), ret (what the last update returned), next_id (the identity  *)
(* of the next RigidBody created) and frames (number of game calls so far).*)
(* game holds what a claim about a sequence of calls has to remember of    *)
(* the calls before: the accumulated dt of the player's dashes, and the    *)
(* fields of MemoryParasiteGame with the stages a tick has run.            *)
(***************************************************************************)
VARIABLES bodies, phys_bodies, gravity, circles, rects, tests, raised, steps,
          op,
          BACKEND, sounds, device, nchannels, volume, voices, active_voices,
          lock, handles, pcControl, pcMixer, required_frames, mix_iter,
          mix_buffer, out_bytes, pass_stopped, pass_mixed, calls, callbacks,
          player, boss, enemies, platforms, ret, next_id, frames, game

engineVars == <<bodies, phys_bodies, gravity, circles, rects, tests, steps>>
soundVars == <<BACKEND, sounds, device, nchannels, volume, voices, active_voices,
               lock, handles, pcControl, pcMixer, required_frames, mix_iter,
               mix_buffer, out_bytes, pass_stopped, pass_mixed, calls, callbacks>>
gameVars == <<player, boss, enemies, platforms, ret, next_id, frames, game>>
vars == <<engineVars, op, raised, soundVars, gameVars>>

Ids == {1, 2}

\* no game object exists
GameIdle ==
    /\ player = <<>>
    /\ boss = <<>>
    /\ enemies = <<>>
    /\ platforms = <<>>
    /\ ret = <<>>
    /\ next_id = 1
    /\ frames = 0
    /\ game = <<>>

\* the audio mixer before any sound call
SoundIdle ==
    /\ BACKEND = "none"
    /\ sounds = {}
    /\ device = "None"
    /\ nchannels = 1
    /\ volume = ROne
    /\ voices = <<>>
    /\ active_voices = <<>>
    /\ lock = "none"
    /\ handles = <<>>
    /\ pcControl = "idle"
    /\ pcMixer = "idle"
    /\ required_frames = 0
    /\ mix_iter = <<>>
    /\ mix_buffer = <<>>
    /\ out_bytes = <<>>
    /\ pass_stopped = {}
    /\ pass_mixed = {}
    /\ calls = 0
    /\ callbacks = 0

(***************************************************************************)
(* PhysicsWorld (src/engine/physics.py).                                   *)
(***************************************************************************)
RECURSIVE update_bodies(_, _, _, _)
\* the loop of PhysicsWorld.update over the list, from index k
update_bodies(bs, list, k, dt) ==
    IF k > Len(list) THEN bs
    ELSE LET id == list[k]
             body == bs[id]
             forced == IF ~body.is_static
                       THEN apply_force(body, Vec2_mul(gravity, body.mass))
                       ELSE body
         IN  update_bodies([bs EXCEPT ![id] = RigidBody_update(forced, dt)],
                           list, k + 1, dt)

Dts == {R(0), <<1, 2>>, R(1)}
Forces == {VI(0, 0), VI(2, 0), VI(0, -4)}
Gravities == {VI(0, 0), VI(0, 10)}
Velocities == {VI(0, 0), VI(2, 0), VI(-2, 4)}
Masses == {R(1), R(2)}
Drags == {R(0), <<1, 2>>}
Restitutions == {R(0), <<4, 5>>}

PhysicsWorld_update(dt) ==
    /\ steps < MaxSteps
    /\ bodies' = update_bodies(bodies, phys_bodies, 1, dt)
    /\ steps' = steps + 1
    /\ op' = [name |-> "update", dt |-> dt]
    /\ UNCHANGED <<phys_bodies, gravity, circles, rects, tests, raised>>

ApplyForce(id, force) ==
    /\ steps < MaxSteps
    /\ bodies' = [bodies EXCEPT ![id] = apply_force(bodies[id], force)]
    /\ steps' = steps + 1
    /\ op' = [name |-> "apply_force", body |-> id, arg |-> force]
    /\ UNCHANGED <<phys_bodies, gravity, circles, rects, tests, raised>>

ApplyImpulse(id, impulse) ==
    /\ steps < MaxSteps
    /\ bodies' = [bodies EXCEPT ![id] = apply_impulse(bodies[id], impulse)]
    /\ steps' = steps + 1
    /\ op' = [name |-> "apply_impulse", body |-> id, arg |-> impulse]
    /\ UNCHANGED <<phys_bodies, gravity, circles, rects, tests, raised>>

add_body(id) ==
    /\ steps < MaxSteps
    /\ Len(phys_bodies) < 2
    /\ phys_bodies' = Append(phys_bodies, id)
    /\ steps' = steps + 1
    /\ op' = [name |-> "add_body", body |-> id]
    /\ UNCHANGED <<bodies, gravity, circles, rects, tests, raised>>

\* list.remove: the first occurrence
RemoveFirst(list, x) ==
    LET k == CHOOSE i \in 1..Len(list) :
                 list[i] = x /\ \A j \in 1..(i - 1) : list[j] # x
    IN  SubSeq(list, 1, k - 1) \o SubSeq(list, k + 1, Len(list))

InList(list, x) == \E i \in 1..Len(list) : list[i] = x

remove_body(id) ==
    /\ steps < MaxSteps
    /\ phys_bodies' = IF InList(phys_bodies, id)
                      THEN RemoveFirst(phys_bodies, id) ELSE phys_bodies
    /\ steps' = steps + 1
    /\ op' = [name |-> "remove_body", body |-> id]
    /\ UNCHANGED <<bodies, gravity, circles, rects, tests, raised>>

InitPhysics ==
    /\ \E s1 \in BOOLEAN, v1, v2 \in Velocities, m \in Masses, d \in Drags :
          bodies = [i \in Ids |->
                       IF i = 1
                       THEN RigidBody(VI(0, 0), v1, m, d, <<4, 5>>, s1)
                       ELSE RigidBody(VI(3, 4), v2, R(1), d, <<4, 5>>, ~s1)]
    /\ phys_bodies \in {<<1>>, <<1, 2>>}
    /\ gravity \in Gravities
    /\ circles = <<>>
    /\ rects = <<>>
    /\ tests = <<>>
    /\ raised = FALSE
    /\ steps = 0
    /\ op = [name |-> "init"]
    /\ SoundIdle
    /\ GameIdle

NextPhysics ==
    \/ \E dt \in Dts : PhysicsWorld_update(dt) /\ UNCHANGED <<soundVars, gameVars>>
    \/ \E id \in Ids, f \in Forces : ApplyForce(id, f) /\ UNCHANGED <<soundVars, gameVars>>
    \/ \E id \in Ids, f \in Forces : ApplyImpulse(id, f) /\ UNCHANGED <<soundVars, gameVars>>
    \/ \E id \in Ids : add_body(id) /\ UNCHANGED <<soundVars, gameVars>>
    \/ \E id \in Ids : remove_body(id) /\ UNCHANGED <<soundVars, gameVars>>

SpecPhysics == InitPhysics /\ [][NextPhysics]_vars

\* C3: a body whose is_static flag is true keeps its position and velocity
\* over every step of the physics world (update with any dt and gravity,
\* apply_force, apply_impulse, add_body, remove_body).
C3_StaticBodyFrozen ==
    [][\A id \in Ids :
          bodies[id].is_static =>
              /\ bodies'[id].position = bodies[id].position
              /\ bodies'[id].velocity = bodies[id].velocity]_vars

\* a static body with a non-zero velocity, tracked by the world, right after
\* a non-zero impulse was applied to it, when an update with dt > 0 has
\* already moved the dynamic body away from its initial position
C3_Witness ==
    /\ op.name = "apply_impulse"
    /\ op.arg # VI(0, 0)
    /\ bodies[op.body].is_static
    /\ bodies[op.body].velocity # VI(0, 0)
    /\ InList(phys_bodies, op.body)
    /\ \E j \in Ids : /\ ~bodies[j].is_static
                      /\ InList(phys_bodies, j)
                      /\ bodies[j].position \notin {VI(0, 0), VI(3, 4)}

(***************************************************************************)
(* CollisionWorld (src/engine/collision.py).                               *)
(***************************************************************************)
Radii == {R(5), R(10)}
RectSizes == {<<R(2), R(2)>>, <<R(10), R(10)>>, <<R(20), R(4)>>}
Positions == {VI(3, 4), VI(6, 0), VI(0, -6), VI(-3, -4), VI(0, 0), VI(12, 0),
              VI(1, 0), VI(4, 5)}

Registered(id) ==
    \/ \E k \in 1..Len(circles) : circles[k][1] = id
    \/ \E k \in 1..Len(rects) : rects[k][1] = id

\* every body is registered with at most one collider
add_circle(id, radius) ==
    /\ steps < MaxSteps
    /\ ~Registered(id)
    /\ circles' = Append(circles, <<id, radius>>)
    /\ steps' = steps + 1
    /\ op' = [name |-> "add_circle", body |-> id]
    /\ UNCHANGED <<bodies, phys_bodies, gravity, rects, tests, raised>>

add_rect(id, width, height) ==
    /\ steps < MaxSteps
    /\ ~Registered(id)
    /\ rects' = Append(rects, <<id, width, height>>)
    /\ steps' = steps + 1
    /\ op' = [name |-> "add_rect", body |-> id]
    /\ UNCHANGED <<bodies, phys_bodies, gravity, circles, tests, raised>>

\* the index pairs <<i, j>>, i in 1..n, j in 1..m, in the order of the nested loops
AllPairs(n, m) ==
    [k \in 1..(n * m) |-> <<((k - 1) \div m) + 1, ((k - 1) % m) + 1>>]
Lower(p) == p[1] < p[2]
Tag(kind, pairs) == [k \in 1..Len(pairs) |-> <<kind, pairs[k][1], pairs[k][2]>>]

\* the narrow-phase tests of one sweep, in order: circle x circle (i < j),
\* circle x rect (all pairs), rect x rect (i < j)
Jobs ==
    Tag("cc", SelectSeq(AllPairs(Len(circles), Len(circles)), Lower))
    \o Tag("cr", AllPairs(Len(circles), Len(rects)))
    \o Tag("rr", SelectSeq(AllPairs(Len(rects), Len(rects)), Lower))

RectX(bs, r) == RSub(bs[r[1]].position.x, RDiv(r[2], R(2)))
RectY(bs, r) == RSub(bs[r[1]].position.y, RDiv(r[3], R(2)))

JobA(job) == IF job[1] = "rr" THEN rects[job[2]] ELSE circles[job[2]]
JobB(job) == IF job[1] = "cc" THEN circles[job[3]] ELSE rects[job[3]]

\* the narrow-phase test of a job on the bodies bs
narrow_phase(bs, job) ==
    LET a == JobA(job)
        b == JobB(job)
    IN  IF job[1] = "cc"
        THEN circle_vs_circle(bs[a[1]].position, a[2], bs[b[1]].position, b[2])
        ELSE IF job[1] = "cr"
        THEN circle_vs_rect(bs[a[1]].position, a[2],
                            RectX(bs, b), RectY(bs, b), b[2], b[3])
        ELSE rect_vs_rect(RectX(bs, a), RectY(bs, a), a[2], a[3],
                          RectX(bs, b), RectY(bs, b), b[2], b[3])

\* the hit flag of the same test, computed without a square root
narrow_phase_hit(bs, job) ==
    LET a == JobA(job)
        b == JobB(job)
    IN  IF job[1] = "cc"
        THEN circle_vs_circle_hit(bs[a[1]].position, a[2], bs[b[1]].position, b[2])
        ELSE IF job[1] = "cr"
        THEN circle_vs_rect_hit(bs[a[1]].position, a[2],
                                RectX(bs, b), RectY(bs, b), b[2], b[3])
        ELSE rect_vs_rect(RectX(bs, a), RectY(bs, a), a[2], a[3],
                          RectX(bs, b), RectY(bs, b), b[2], b[3]).hit

IsSquareR(q) == IsSquare(q[1]) /\ IsSquare(q[2])

\* the distance the test takes the root of is rational
ExactJob(bs, job) ==
    LET a == JobA(job)
        b == JobB(job)
    IN  IF ~narrow_phase_hit(bs, job) \/ job[1] = "rr" THEN TRUE
        ELSE IF job[1] = "cc"
        THEN IsSquareR(Vec2_length_squared(
                 Vec2_sub(bs[b[1]].position, bs[a[1]].position)))
        ELSE IsSquareR(Vec2_length_squared(
                 Vec2_sub(bs[a[1]].position,
                          closest_point(bs[a[1]].position, RectX(bs, b),
                                        RectY(bs, b), b[2], b[3]))))

RECURSIVE sweep(_, _, _)
\* the loops of check_and_resolve from job k on; an exception ends the sweep
sweep(st, jobs, k) ==
    IF k > Len(jobs) \/ st.raised THEN st
    ELSE LET job == jobs[k]
             ia == JobA(job)[1]
             ib == JobB(job)[1]
             info == narrow_phase(st.bodies, job)
             res == resolve_collision(st.bodies[ia], st.bodies[ib], info)
         IN  sweep([bodies |-> [st.bodies EXCEPT ![ia] = res.a, ![ib] = res.b],
                    raised |-> res.raised,
                    tests |-> Append(st.tests,
                                 [job |-> job, a |-> ia, b |-> ib,
                                  before |-> st.bodies, info |-> info])],
                   jobs, k + 1)

check_and_resolve ==
    /\ steps < MaxSteps
    /\ \A k \in 1..Len(Jobs) : ExactJob(bodies, Jobs[k])
    /\ \E st \in {sweep([bodies |-> bodies, raised |-> FALSE, tests |-> <<>>],
                         Jobs, 1)} :
          /\ bodies' = st.bodies
          /\ raised' = st.raised
          /\ tests' = st.tests
    /\ steps' = steps + 1
    /\ op' = [name |-> "check_and_resolve"]
    /\ UNCHANGED <<phys_bodies, gravity, circles, rects>>

InitCollision ==
    /\ \E s1, s2 \in BOOLEAN, v1, v2 \in Velocities, m \in Masses,
          e \in Restitutions, p \in Positions :
          bodies = [i \in Ids |->
                       IF i = 1
                       THEN RigidBody(VI(0, 0), IF s1 THEN VZero ELSE v1,
                                      m, R(0), e, s1)
                       ELSE RigidBody(p, IF s2 THEN VZero ELSE v2,
                                      R(1), R(0), <<4, 5>>, s2)]
    /\ phys_bodies = <<>>
    /\ gravity = VZero
    /\ circles = <<>>
    /\ rects = <<>>
    /\ tests = <<>>
    /\ raised = FALSE
    /\ steps = 0
    /\ op = [name |-> "init"]
    /\ SoundIdle
    /\ GameIdle

NextCollision ==
    \/ \E id \in Ids, r \in Radii : add_circle(id, r) /\ UNCHANGED <<soundVars, gameVars>>
    \/ \E id \in Ids, wh \in RectSizes :
          add_rect(id, wh[1], wh[2]) /\ UNCHANGED <<soundVars, gameVars>>
    \/ check_and_resolve /\ UNCHANGED <<soundVars, gameVars>>

SpecCollision == InitCollision /\ [][NextCollision]_vars

(***************************************************************************)
(* Claims about the collision world.                                       *)
(***************************************************************************)
\* C1: for an isolated pair of one dynamic and one static body, after
\* check_and_resolve has resolved a hit, the same narrow-phase test on the new
\* positions reports hit = false.
C1_ResolvedPairSeparated ==
    (op.name = "check_and_resolve" /\ Len(tests) = 1) =>
        LET t == tests[1]
        IN  (t.info.hit /\ bodies[t.a].is_static # bodies[t.b].is_static)
                => ~narrow_phase_hit(bodies, t.job)

\* the geometric overlap of a pair, by shape, compared before and after a move
\* of body A to the position pa2: TRUE when the overlap has become smaller
MinEdge(c, rx, ry, rw, rh) ==
    RMin(RMin(RSub(c.x, rx), RSub(RAdd(rx, rw), c.x)),
         RMin(RSub(c.y, ry), RSub(RAdd(ry, rh), c.y)))
OutsideSq(c, rx, ry, rw, rh) ==
    Vec2_length_squared(Vec2_sub(c, closest_point(c, rx, ry, rw, rh)))
Penetration(ax, ay, aw, ah, bx, by, bw, bh) ==
    LET ox == RSub(RMin(RAdd(ax, aw), RAdd(bx, bw)), RMax(ax, bx))
        oy == RSub(RMin(RAdd(ay, ah), RAdd(by, bh)), RMax(ay, by))
    IN  IF RLe(ox, RZero) \/ RLe(oy, RZero) THEN RZero ELSE RMin(ox, oy)

OverlapReduced(t, pa2) ==
    LET bs == t.before
        bs2 == [bs EXCEPT ![t.a].position = pa2]
        a == JobA(t.job)
        b == JobB(t.job)
    IN  IF t.job[1] = "cc"
        THEN RLt(Vec2_length_squared(Vec2_sub(bs[t.b].position, bs[t.a].position)),
                 Vec2_length_squared(Vec2_sub(bs[t.b].position, pa2)))
        ELSE IF t.job[1] = "cr"
        THEN LET rx == RectX(bs, b)
                 ry == RectY(bs, b)
                 o1 == OutsideSq(bs[t.a].position, rx, ry, b[2], b[3])
                 o2 == OutsideSq(pa2, rx, ry, b[2], b[3])
             IN  IF o1 = RZero
                 THEN \/ o2 # RZero
                      \/ RLt(MinEdge(pa2, rx, ry, b[2], b[3]),
                             MinEdge(bs[t.a].position, rx, ry, b[2], b[3]))
                 ELSE RLt(o1, o2)
        ELSE RLt(Penetration(RectX(bs2, a), RectY(bs2, a), a[2], a[3],
                             RectX(bs, b), RectY(bs, b), b[2], b[3]),
                 Penetration(RectX(bs, a), RectY(bs, a), a[2], a[3],
                             RectX(bs, b), RectY(bs, b), b[2], b[3]))

NudgeStep == <<1, 4>>

\* C2: every hit of circle_vs_circle, circle_vs_rect (A the circle, B the
\* rectangle) and rect_vs_rect has depth >= 0 and a normal that points from A
\* toward B: moving A a small step along -normal makes the overlap smaller.
C2_NormalFromAToB ==
    \A k \in 1..Len(tests) :
        LET t == tests[k]
        IN  t.info.hit =>
                /\ RLe(RZero, t.info.depth)
                /\ OverlapReduced(t, Vec2_sub(t.before[t.a].position,
                                      Vec2_mul(t.info.normal[1], NudgeStep)))

\* C4: a check_and_resolve sweep leaves the position and velocity of every
\* static body as they were, also when both bodies of a hit pair are static.
C4_ResolveKeepsStatic ==
    [][op'.name = "check_and_resolve" =>
          \A id \in Ids :
              bodies[id].is_static =>
                  /\ bodies'[id].position = bodies[id].position
                  /\ bodies'[id].velocity = bodies[id].velocity]_vars

(***************************************************************************)
(* The audio mixer (src/engine/sound.py).                                  *)
(*   BACKEND        "pygame", "miniaudio" or "none", fixed at import       *)
(*   sounds         SoundManager.sounds: the names loaded so far           *)
(*   device         "None" before _ensure_device has started the mixer,    *)
(*                  "running" afterwards                                   *)
(*   nchannels      channel count of the decoded sounds and of the device  *)
(*   volume         SoundManager.volume                                    *)
(*   voices         the Voice objects created so far, by identity          *)
(*   active_voices  SoundManager.active_voices, a list of voice ids        *)
(*   lock           holder of SoundManager._lock                           *)
(*   handles        the SoundHandle objects returned by play(): None or    *)
(*                  the voice they are bound to                            *)
(*   pcControl      position of the control thread inside play()           *)
(*   pcMixer        position of the callback thread inside mixer_gen       *)
(*   required_frames, mix_iter, mix_buffer   locals of mixer_gen           *)
(*   out_bytes      the samples yielded by the last callback               *)
(*   pass_stopped   voices on which stop() had been called when the        *)
(*                  current pass began (history)                           *)
(*   pass_mixed     voices added to mix_buffer in the current pass         *)
(*                  (history)                                              *)
(*   calls          number of calls of the control thread so far           *)
(*   callbacks      number of device callbacks so far                      *)
(* A voice also carries history fields: stopped (stop() was called on its  *)
(* handle), removed (the mixer took it out of active_voices), phase (the   *)
(* samples requested from it so far, modulo the buffer length), chunk,     *)
(* chunk_n and chunk_start (the chunk last extracted, the size requested   *)
(* and the phase at which it was requested), played (all                   *)
(* chunks of a non-looping voice, concatenated) and visits (the passes     *)
(* that visited a non-looping voice).                                      *)
(*                                                                         *)
(* np.float32 rounding of the filter state is modelled by rounding toward  *)
(* zero to a whole sample unit; all other mixing arithmetic is exact.      *)
(***************************************************************************)
MaxCalls == 3
MaxCallbacks == 3
\* calls and callbacks together
MaxOps == 5

SoundNames == {"a", "b"}
\* the decoded int16 samples of each sound file
Samples(name) ==
    IF name = "a" THEN <<32767, -32768>> ELSE <<100, -200, 32767, 300>>

\* the volume argument of play() and of SoundHandle.set_volume()
PlayVolumes == {R(2)}
HandleVolumes == {R(1), R(2)}
LowPasses == {R(0), R(2)}
GlobalVolumes == {<<1, 2>>, R(3)}
Frames == {0, 1, 3}

Trunc(q) == IF q[1] >= 0 THEN q[1] \div q[2] ELSE -((-q[1]) \div q[2])

Voice(name, vol, loop, low_pass, nch) ==
    LET lp == RMax(RZero, RMin(ROne, low_pass))
    IN  [sound |-> name, volume |-> vol, loop |-> loop, lp_amount |-> lp,
         playing |-> TRUE, offset |-> 0,
         last_y |-> [c \in 1..nch |-> 0],
         alpha |-> RSub(ROne, RMul(lp, <<19, 20>>)),
         stopped |-> FALSE, removed |-> FALSE, phase |-> 0,
         chunk |-> <<>>, chunk_n |-> 0, chunk_start |-> 0, played |-> <<>>,
         visits |-> 0]

\* Voice.stop
Voice_stop(v) == [v EXCEPT !.playing = FALSE, !.stopped = TRUE]

\* v.samples[i:j] of Python, 0-based, end exclusive
Slice(seq, i, j) == SubSeq(seq, i + 1, j)

\* the chunk extraction of mixer_gen for one playing voice
extract_never_ends(v, num_samples) ==
    LET samples == Samples(v.sound)
        end_idx == v.offset + num_samples
    IN  IF end_idx > Len(samples)
        THEN IF v.loop
             THEN LET part1 == Slice(samples, v.offset, Len(samples))
                      wrap == num_samples - Len(part1)
                      off == wrap % Len(samples)
                      part2 == Slice(samples, 0, off)
                  IN  [chunk |-> part1 \o part2, offset |-> off,
                       playing |-> v.playing]
             ELSE [chunk |-> Slice(samples, v.offset, Len(samples)),
                   offset |-> v.offset, playing |-> v.playing]
        ELSE [chunk |-> Slice(samples, v.offset, end_idx), offset |-> end_idx,
              playing |-> v.playing]

extract(v, num_samples) ==
    LET samples == Samples(v.sound)
        end_idx == v.offset + num_samples
    IN  IF end_idx > Len(samples)
        THEN IF v.loop
             THEN LET part1 == Slice(samples, v.offset, Len(samples))
                      wrap == num_samples - Len(part1)
                      off == wrap % Len(samples)
                      part2 == Slice(samples, 0, off)
                  IN  [chunk |-> part1 \o part2, offset |-> off,
                       playing |-> v.playing]
             ELSE [chunk |-> Slice(samples, v.offset, Len(samples)),
                   offset |-> v.offset, playing |-> FALSE]
        ELSE [chunk |-> Slice(samples, v.offset, end_idx), offset |-> end_idx,
              playing |-> v.playing]

\* np.pad(chunk, (0, num_samples - len(chunk)))
np_pad(chunk, num_samples) ==
    chunk \o [i \in 1..(num_samples - Len(chunk)) |-> 0]

RECURSIVE one_pole(_, _, _, _, _)
\* the per-frame filter loop from sample i on: the result is the filtered
\* samples and the last_y left behind
one_pole(chunk_f, i, alpha, last_y, nch) ==
    IF i > Len(chunk_f) THEN [chunk_f |-> chunk_f, last_y |-> last_y]
    ELSE LET c == ((i - 1) % nch) + 1
             y == Trunc(RAdd(RMul(alpha, chunk_f[i]),
                             RMul(RSub(ROne, alpha), R(last_y[c]))))
         IN  one_pole([chunk_f EXCEPT ![i] = R(y)], i + 1, alpha,
                      [last_y EXCEPT ![c] = y], nch)

np_clip_missing(x, lo, hi) == x

np_clip(x, lo, hi) == RMax(R(lo), RMin(R(hi), x))

\* astype(np.int16): truncation toward zero, in 16 bits
to_int16(x) == ((Trunc(x) + 32768) % 65536) - 32768

voice_finished_ignored(v) == FALSE

\* the test `not v.playing` of mixer_gen
voice_finished(v) == ~v.playing

lock_free_unchecked(l) == TRUE

\* threading.Lock: acquire proceeds only when nobody holds the lock
lock_free(l) == l = "none"

play_is_inert_backend_only(backend, loaded, name) == backend = "none"

\* the two early returns of play(): no backend, or sounds.get(name) is None
play_is_inert(backend, loaded, name) == backend = "none" \/ name \notin loaded

engineIdle == UNCHANGED <<engineVars, gameVars>>
mixerLocals == <<pcMixer, required_frames, mix_iter, mix_buffer, out_bytes,
                 pass_stopped, pass_mixed>>
configVars == <<BACKEND, nchannels>>

(***************************************************************************)
(* The control thread: load, play, stop, set_volume, set_global_volume.    *)
(***************************************************************************)
\* load(path, name); ok = FALSE when decoding the file raises (caught, logged)
load(name, ok) ==
    /\ pcControl = "idle"
    /\ calls < MaxCalls /\ calls + callbacks < MaxOps
    /\ calls' = calls + 1
    /\ UNCHANGED callbacks
    /\ IF BACKEND = "none" \/ name \in sounds \/ ~ok
       THEN UNCHANGED <<sounds, device>>
       ELSE /\ sounds' = sounds \cup {name}
            /\ device' = IF BACKEND = "miniaudio" THEN "running" ELSE device
    /\ op' = [name |-> "load", sound |-> name]
    /\ UNCHANGED <<raised, configVars, volume, voices, active_voices, lock,
                   handles, pcControl, mixerLocals>>

\* play() up to its return or up to the `with self._lock`
play_begin(name, vol, loop, low_pass) ==
    /\ pcControl = "idle"
    /\ calls < MaxCalls /\ calls + callbacks < MaxOps
    /\ calls' = calls + 1
    /\ UNCHANGED callbacks
    /\ IF play_is_inert(BACKEND, sounds, name) \/ BACKEND = "pygame"
       THEN /\ handles' = Append(handles, None)
            /\ op' = [name |-> "play", sound |-> name, handle |-> Len(handles) + 1]
            /\ UNCHANGED <<voices, pcControl>>
       ELSE /\ voices' = Append(voices, Voice(name, vol, loop, low_pass, nchannels))
            /\ pcControl' = "acquire"
            /\ op' = [name |-> "play_begin", sound |-> name]
            /\ UNCHANGED handles
    /\ UNCHANGED <<raised, configVars, sounds, device, volume, active_voices,
                   lock, mixerLocals>>

\* play(): entering `with self._lock`
play_acquire ==
    /\ pcControl = "acquire"
    /\ UNCHANGED <<calls, callbacks>>
    /\ lock_free(lock)
    /\ lock' = "control"
    /\ pcControl' = "append"
    /\ op' = [name |-> "play_acquire"]
    /\ UNCHANGED <<raised, configVars, sounds, device, volume, voices,
                   active_voices, handles, mixerLocals>>

\* play(): the append, leaving the `with` block and the return of the handle
play_append ==
    /\ pcControl = "append"
    /\ UNCHANGED <<calls, callbacks>>
    /\ active_voices' = Append(active_voices, Len(voices))
    /\ lock' = "none"
    /\ handles' = Append(handles, Some(Len(voices)))
    /\ pcControl' = "idle"
    /\ op' = [name |-> "play", sound |-> voices[Len(voices)].sound,
              handle |-> Len(handles) + 1]
    /\ UNCHANGED <<raised, configVars, sounds, device, volume, voices,
                   mixerLocals>>

\* SoundHandle.stop
SoundHandle_stop(h) ==
    /\ pcControl = "idle"
    /\ calls < MaxCalls /\ calls + callbacks < MaxOps
    /\ calls' = calls + 1
    /\ UNCHANGED callbacks
    /\ IF Truthy(handles[h])
       THEN voices' = [voices EXCEPT ![handles[h][1]] = Voice_stop(@)]
       ELSE UNCHANGED voices
    /\ op' = [name |-> "stop", handle |-> h]
    /\ UNCHANGED <<raised, configVars, sounds, device, volume, active_voices,
                   lock, handles, pcControl, mixerLocals>>

\* SoundHandle.set_volume
SoundHandle_set_volume(h, vol) ==
    /\ pcControl = "idle"
    /\ calls < MaxCalls /\ calls + callbacks < MaxOps
    /\ calls' = calls + 1
    /\ UNCHANGED callbacks
    /\ IF Truthy(handles[h])
       THEN voices' = [voices EXCEPT ![handles[h][1]].volume = vol]
       ELSE UNCHANGED voices
    /\ op' = [name |-> "set_volume", handle |-> h]
    /\ UNCHANGED <<raised, configVars, sounds, device, volume, active_voices,
                   lock, handles, pcControl, mixerLocals>>

set_global_volume(v) ==
    /\ pcControl = "idle"
    /\ calls < MaxCalls /\ calls + callbacks < MaxOps
    /\ calls' = calls + 1
    /\ UNCHANGED callbacks
    /\ volume' = RMax(RZero, RMin(ROne, v))
    /\ op' = [name |-> "set_global_volume"]
    /\ UNCHANGED <<raised, configVars, sounds, device, voices, active_voices,
                   lock, handles, pcControl, mixerLocals>>

(***************************************************************************)
(* The callback thread: one resumption of mixer_gen per device callback.   *)
(***************************************************************************)
\* the generator is resumed with required_frames = n_frames
mixer_begin(n_frames) ==
    /\ pcMixer = "idle"
    /\ callbacks < MaxCallbacks /\ calls + callbacks < MaxOps
    /\ callbacks' = callbacks + 1
    /\ UNCHANGED calls
    /\ device = "running"
    /\ IF n_frames <= 0
       THEN /\ out_bytes' = <<>>
            /\ UNCHANGED <<pcMixer, required_frames, mix_buffer, pass_stopped,
                           pass_mixed>>
       ELSE /\ required_frames' = n_frames
            /\ mix_buffer' = [i \in 1..(n_frames * nchannels) |-> RZero]
            /\ pcMixer' = "acquire"
            /\ pass_stopped' = {v \in 1..Len(voices) : voices[v].stopped}
            /\ pass_mixed' = {}
            /\ UNCHANGED out_bytes
    /\ op' = [name |-> "callback", frames |-> n_frames]
    /\ UNCHANGED <<raised, configVars, sounds, device, volume, voices,
                   active_voices, lock, handles, pcControl, mix_iter>>

\* entering `with manager._lock` and copying the list for the loop
mixer_acquire ==
    /\ pcMixer = "acquire"
    /\ UNCHANGED <<calls, callbacks>>
    /\ lock_free(lock)
    /\ lock' = "mixer"
    /\ mix_iter' = active_voices
    /\ pcMixer' = "loop"
    /\ op' = [name |-> "mixer_acquire"]
    /\ UNCHANGED <<raised, configVars, sounds, device, volume, voices,
                   active_voices, handles, pcControl, required_frames,
                   mix_buffer, out_bytes, pass_stopped, pass_mixed>>

\* one iteration of `for v in manager.active_voices[:]`
mixer_voice ==
    /\ pcMixer = "loop"
    /\ UNCHANGED <<calls, callbacks>>
    /\ mix_iter # <<>>
    /\ LET id == Head(mix_iter)
           v == voices[id]
           num_samples == required_frames * nchannels
       IN  IF voice_finished(v)
           THEN /\ active_voices' = RemoveFirst(active_voices, id)
                /\ voices' = [voices EXCEPT ![id].removed = TRUE]
                /\ UNCHANGED <<mix_buffer, pass_mixed>>
           ELSE LET ex == extract(v, num_samples)
                    mixes == Len(ex.chunk) > 0
                    scaled == [i \in 1..num_samples |->
                                  RMul(RMul(R(np_pad(ex.chunk, num_samples)[i]),
                                            v.volume), volume)]
                    filtered == IF RLt(<<1, 100>>, v.lp_amount)
                                THEN one_pole(scaled, 1, v.alpha, v.last_y, nchannels)
                                ELSE [chunk_f |-> scaled, last_y |-> v.last_y]
                IN  /\ voices' = [voices EXCEPT ![id] =
                            [v EXCEPT !.offset = ex.offset,
                                      !.playing = ex.playing,
                                      !.last_y = IF mixes THEN filtered.last_y ELSE @,
                                      !.phase = (@ + num_samples) % Len(Samples(v.sound)),
                                      !.chunk = ex.chunk,
                                      !.chunk_n = num_samples,
                                      !.chunk_start = v.phase,
                                      !.played = IF v.loop THEN @ ELSE @ \o ex.chunk,
                                      !.visits = IF v.loop THEN @ ELSE @ + 1]]
                    /\ mix_buffer' = IF mixes
                                     THEN [i \in 1..num_samples |->
                                              RAdd(mix_buffer[i], filtered.chunk_f[i])]
                                     ELSE mix_buffer
                    /\ pass_mixed' = IF mixes THEN pass_mixed \cup {id} ELSE pass_mixed
                    /\ UNCHANGED active_voices
    /\ mix_iter' = Tail(mix_iter)
    /\ op' = [name |-> "mixer_voice", voice |-> Head(mix_iter)]
    /\ UNCHANGED <<raised, configVars, sounds, device, volume, lock, handles,
                   pcControl, pcMixer, required_frames, out_bytes, pass_stopped>>

\* leaving the `with` block, clipping, converting and yielding the buffer
mixer_end ==
    /\ pcMixer = "loop"
    /\ UNCHANGED <<calls, callbacks>>
    /\ mix_iter = <<>>
    /\ lock' = "none"
    /\ out_bytes' = [i \in 1..Len(mix_buffer) |->
                        to_int16(np_clip(mix_buffer[i], -32768, 32767))]
    /\ pcMixer' = "idle"
    /\ op' = [name |-> "yield", frames |-> required_frames]
    /\ UNCHANGED <<raised, configVars, sounds, device, volume, voices,
                   active_voices, handles, pcControl, required_frames,
                   mix_iter, mix_buffer, pass_stopped, pass_mixed>>

InitSound ==
    /\ bodies = [i \in Ids |-> RigidBody(VZero, VZero, ROne, RZero, ROne, TRUE)]
    /\ phys_bodies = <<>>
    /\ gravity = VZero
    /\ circles = <<>>
    /\ rects = <<>>
    /\ tests = <<>>
    /\ steps = 0
    /\ raised = FALSE
    /\ op = [name |-> "init"]
    /\ BACKEND \in {"none", "pygame", "miniaudio"}
    /\ nchannels \in {1, 2}
    /\ sounds = {}
    /\ device = "None"
    /\ volume = ROne
    /\ voices = <<>>
    /\ active_voices = <<>>
    /\ lock = "none"
    /\ handles = <<>>
    /\ pcControl = "idle"
    /\ pcMixer = "idle"
    /\ required_frames = 0
    /\ mix_iter = <<>>
    /\ mix_buffer = <<>>
    /\ out_bytes = <<>>
    /\ pass_stopped = {}
    /\ pass_mixed = {}
    /\ calls = 0
    /\ callbacks = 0
    /\ GameIdle

NextSound ==
    \/ \E name \in SoundNames, ok \in BOOLEAN : load(name, ok) /\ engineIdle
    \/ \E name \in SoundNames, vol \in PlayVolumes, loop \in BOOLEAN,
          lp \in LowPasses : play_begin(name, vol, loop, lp) /\ engineIdle
    \/ play_acquire /\ engineIdle
    \/ play_append /\ engineIdle
    \/ \E h \in 1..Len(handles) : SoundHandle_stop(h) /\ engineIdle
    \/ \E h \in 1..Len(handles), vol \in HandleVolumes :
          SoundHandle_set_volume(h, vol) /\ engineIdle
    \/ \E v \in GlobalVolumes : set_global_volume(v) /\ engineIdle
    \/ \E n \in Frames : mixer_begin(n) /\ engineIdle
    \/ mixer_acquire /\ engineIdle
    \/ mixer_voice /\ engineIdle
    \/ mixer_end /\ engineIdle

SpecSound == InitSound /\ [][NextSound]_vars

(***************************************************************************)
(* Claims about the audio mixer.                                           *)
(***************************************************************************)
VoiceIds == 1..Len(voices)

\* C5: for a looping voice and a request size n that does not divide the
\* buffer length L, every extracted chunk is the next n samples of the
\* periodic repetition of the buffer: chunk[i] = samples[(start + i) mod L],
\* nothing dropped, duplicated or left to zero padding.
C5_LoopStreamPeriodic ==
    \A id \in VoiceIds :
        LET v == voices[id]
            samples == Samples(v.sound)
            L == Len(samples)
            n == v.chunk_n
        IN  (v.loop /\ n > 0 /\ L % n # 0) =>
                v.chunk = [i \in 1..n |-> samples[((v.chunk_start + i - 1) % L) + 1]]

\* C6: every sample yielded by a callback is the mixed sum saturated to the
\* 16-bit range: 32767 for a sum above it, -32768 for a sum below it, the
\* sum itself (truncated to an integer) otherwise; it never wraps.
C6_OutputSaturates ==
    op.name = "yield" =>
        /\ Len(out_bytes) = required_frames * nchannels
        /\ \A i \in 1..Len(out_bytes) :
              /\ out_bytes[i] >= -32768
              /\ out_bytes[i] <= 32767
              /\ RLt(R(32767), mix_buffer[i]) => out_bytes[i] = 32767
              /\ RLt(mix_buffer[i], R(-32768)) => out_bytes[i] = -32768
              /\ (RLe(R(-32768), mix_buffer[i]) /\ RLe(mix_buffer[i], R(32767)))
                    => out_bytes[i] = Trunc(mix_buffer[i])

\* two voices were summed and the sum left the 16-bit range on both sides
C6_Witness ==
    /\ op.name = "yield"
    /\ Cardinality(pass_mixed) >= 2
    /\ \E i \in 1..Len(mix_buffer) : RLt(R(32767), mix_buffer[i])
    /\ \E i \in 1..Len(mix_buffer) : RLt(mix_buffer[i], R(-32768))

\* C7: the control thread is between acquire and release exactly when it holds
\* the lock, and so is the callback thread, hence never both; active_voices
\* changes, and a voice's cursor and filter state change, only in a step of
\* the thread that holds the lock; and a voice whose handle play() returned is
\* in active_voices unless the mixer removed it.
C7_LockDiscipline ==
    /\ [](/\ (pcControl = "append") <=> (lock = "control")
          /\ (pcMixer = "loop") <=> (lock = "mixer")
          /\ \A h \in 1..Len(handles) :
                Truthy(handles[h]) =>
                    \/ InList(active_voices, handles[h][1])
                    \/ voices[handles[h][1]].removed)
    /\ [][/\ active_voices' # active_voices =>
                \/ lock = "control" /\ pcControl = "append" /\ pcControl' = "idle"
                \/ lock = "mixer" /\ pcMixer = "loop" /\ pcMixer' = "loop"
          /\ \A id \in VoiceIds :
                (\/ voices'[id].offset # voices[id].offset
                 \/ voices'[id].last_y # voices[id].last_y)
                    => lock = "mixer" /\ pcMixer = "loop"]_vars

\* play() waits for the lock while the callback is inside its loop over a
\* voice that an earlier play() added
C7_Witness ==
    /\ pcControl = "acquire"
    /\ pcMixer = "loop"
    /\ lock = "mixer"
    /\ mix_iter # <<>>
    /\ \E h \in 1..Len(handles) : Truthy(handles[h])

\* C8: a voice on which stop() had been called when a mixing pass began is
\* never mixed in that pass, and is out of active_voices when the pass has
\* finished; as every later pass begins after the stop as well, the voice
\* contributes to none of them.  (A callback with required_frames <= 0 runs
\* no pass.)
C8_StopObserved ==
    /\ pass_mixed \cap pass_stopped = {}
    /\ pcMixer = "idle" =>
          \A id \in pass_stopped : ~InList(active_voices, id)

\* a voice that was mixed in one pass, then stopped, has been removed by the
\* next pass
C8_Witness ==
    /\ pcMixer = "idle"
    /\ \E id \in pass_stopped :
          /\ voices[id].removed
          /\ voices[id].chunk_n > 0
          /\ Len(voices[id].chunk) > 0

IsPrefix(p, q) == Len(p) <= Len(q) /\ p = SubSeq(q, 1, Len(p))

\* C9: a voice that has left the active set was stopped, or is non-looping
\* and has contributed exactly its samples, each once and in order; a
\* non-looping voice contributes a prefix of its samples at any time, is
\* visited by at most L + 1 passes before it stops playing and is removed by
\* the first pass that finds it not playing (so it leaves after finitely many
\* callbacks with N > 0); a looping voice that is not stopped stays in the
\* active set.
C9_VoiceLifecycle ==
    /\ [](\A id \in VoiceIds :
             LET v == voices[id]
                 samples == Samples(v.sound)
             IN  /\ v.removed =>
                       \/ v.stopped
                       \/ ~v.loop /\ v.played = samples
                 /\ ~v.loop =>
                       /\ IsPrefix(v.played, samples)
                       /\ v.visits <= Len(samples) + 1
                       /\ (~v.stopped /\ ~v.playing) => v.played = samples
                 /\ v.removed => ~InList(active_voices, id))
    /\ [][/\ \A id \in VoiceIds :
                (InList(active_voices, id) /\ voices[id].loop
                     /\ ~voices'[id].stopped) => InList(active_voices', id)
          /\ \A id \in VoiceIds :
                (op'.name = "mixer_voice" /\ op'.voice = id
                     /\ ~voices[id].playing) => ~InList(active_voices', id)
          /\ \A id \in VoiceIds :
                (op'.name = "mixer_voice" /\ op'.voice = id
                     /\ voices[id].playing /\ ~voices[id].loop)
                    => \/ Len(voices'[id].played) > Len(voices[id].played)
                       \/ ~voices'[id].playing]_vars

\* a non-looping voice that was never stopped has played its whole buffer in
\* more than one pass and has been removed
C9_Witness ==
    \E id \in VoiceIds :
        /\ voices[id].removed
        /\ ~voices[id].stopped
        /\ ~voices[id].loop
        /\ voices[id].visits >= 2
        /\ voices[id].played = Samples(voices[id].sound)

MixerState == <<volume, voices, active_voices, lock, pcMixer, required_frames,
                mix_iter, mix_buffer, out_bytes, device, sounds>>

\* C10: a play() call made without a backend, or for a name that is not
\* loaded, returns a handle bound to no voice and creates and activates no
\* voice; stop() and set_volume() on a handle bound to no voice raise nothing
\* and leave the mixer's state as it was.
C10_InertHandle ==
    [][/\ (/\ op'.name \in {"play", "play_begin"}
           /\ pcControl = "idle"
           /\ (BACKEND = "none" \/ op'.sound \notin sounds))
              => /\ op'.name = "play"
                 /\ handles' = Append(handles, None)
                 /\ UNCHANGED <<voices, active_voices>>
       /\ (/\ op'.name \in {"stop", "set_volume"}
           /\ ~Truthy(handles[op'.handle]))
              => /\ raised' = FALSE
                 /\ UNCHANGED MixerState]_vars

\* stop() or set_volume() was just called on the inert handle that play()
\* returned for a name that was not loaded, while another sound is loaded and
\* the mixer is running
C10_Witness ==
    /\ op.name \in {"stop", "set_volume"}
    /\ ~Truthy(handles[op.handle])
    /\ BACKEND = "miniaudio"
    /\ device = "running"
    /\ sounds # {}


(***************************************************************************)
(* Boss (src/game/boss.py).                                                *)
(* random.* and the sin/cos of the floating target are inputs of the       *)
(* update, gathered in the record rnd.  The fan of the cluster shot turns  *)
(* the aim by multiples of 0.3 rad; the turn is modelled by the rational   *)
(* rotation (24/25, 7/25), an angle of 0.2838 rad.  The particle and audio *)
(* calls and the visual trail of an attack leave the boss, the player and  *)
(* the physics world as they are and are not modelled.  A comparison       *)
(* length() < c is decided on the squares.                                 *)
(***************************************************************************)
\* v.length() < c; the squares are taken only when both components are
\* below c, which keeps the integers small
LengthLt(v, c) ==
    /\ RLt(<<Abs(v.x[1]), v.x[2]>>, c)
    /\ RLt(<<Abs(v.y[1]), v.y[2]>>, c)
    /\ RLt(Vec2_length_squared(v), RMul(c, c))

\* evaluates e once and gives the value to F
Strict(e, F(_)) == CHOOSE r \in {F(v) : v \in {e}} : TRUE

RemoveAt(list, k) == SubSeq(list, 1, k - 1) \o SubSeq(list, k + 1, Len(list))

MemoryPlayer(pos, bid) ==
    [position |-> pos, bid |-> bid, r |-> R(16), width |-> R(7),
     col_width |-> RMul(R(7), R(6)),
     memory |-> R(100), max_mem |-> R(100), is_dashing |-> FALSE,
     dash_timer |-> RZero, dash_cooldown |-> RZero,
     glitch_size_factor |-> ROne, glitch_flip_y |-> FALSE,
     glitch_color_override |-> FALSE, glitch_effect_timer |-> RZero]

\* the first lines of update_velocity, which every frame runs before the
\* enemies are updated: the collision width becomes cfg.col_width
MemoryPlayer_update_velocity(p) == [p EXCEPT !.width = p.col_width]

Boss(pos, bid) ==
    [max_hp |-> 300, hp |-> 300, rage |-> RZero, rage_boost |-> <<1, 10>>,
     freeze_timer |-> RZero, r |-> R(60), bid |-> bid,
     body |-> RigidBody(pos, VZero, R(10), <<1, 10>>, <<1, 2>>, FALSE),
     anim_t |-> RZero, attacks |-> <<>>, attack_timer |-> R(2),
     is_dead |-> FALSE, noise_rays |-> <<>>, next_atk |-> 1]

\* an entry of Boss.attacks, a dict; id is the identity of the dict object
\* (the k-th dict the boss created has id k, which next_atk counts) and
\* penetrating_p = 0 stands for the missing key / None
Attack(pos, vel, id) ==
    [pos |-> pos, vel |-> vel, t |-> RZero, penetrated |-> FALSE,
     penetrating_p |-> 0, id |-> id]

NoiseRay(start, end, timer) ==
    [start |-> start, end |-> end, timer |-> timer, max_t |-> timer]

clamp01_missing(x) == x

\* max(0.0, min(1.0, x))
clamp01(x) == RMax(RZero, RMin(ROne, x))

\* hp_rage + rage_boost, clamped
Boss_rage(b) ==
    clamp01(RAdd(RMul(RSub(ROne, Q[b.hp, b.max_hp]), <<6, 5>>), b.rage_boost))

\* cos and sin of i * 0.3 rad, i in -2..2
FanCos(i) == IF i = 0 THEN ROne ELSE IF i \in {-1, 1} THEN <<24, 25>>
             ELSE <<527, 625>>
FanSin(i) == IF i = 0 THEN RZero
             ELSE IF i = 1 THEN <<7, 25>> ELSE IF i = -1 THEN <<-7, 25>>
             ELSE IF i = 2 THEN <<336, 625>> ELSE <<-336, 625>>
\* Vec2(cos(base_angle + i * 0.3), sin(base_angle + i * 0.3)); atan2(0, 0) = 0
FanDir(base_dir, i) ==
    LET u == IF base_dir = VZero THEN VI(1, 0) ELSE base_dir
    IN  Vec2(RSub(RMul(u.x, FanCos(i)), RMul(u.y, FanSin(i))),
             RAdd(RMul(u.x, FanSin(i)), RMul(u.y, FanCos(i))))

Boss_trigger_attack(b, p, rnd) ==
    LET atk_speed == RAdd(R(600), RMul(b.rage, R(600)))
        dir == Vec2_normalized(Vec2_sub(p.position, b.body.position))
        timer == RAdd(<<4, 5>>, b.rage)
    IN  IF rnd.kind = "arrow"
        THEN [b EXCEPT !.attacks =
                 Append(@, Attack(b.body.position, Vec2_mul(dir, atk_speed),
                                  b.next_atk)),
                       !.next_atk = @ + 1]
        ELSE IF rnd.kind = "ray"
        THEN [b EXCEPT !.noise_rays =
                 Append(@, NoiseRay(b.body.position,
                                    Vec2_add(p.position, rnd.jitter), timer))]
        ELSE [b EXCEPT !.attacks =
                 @ \o [k \in 1..5 |->
                          Attack(b.body.position,
                                 Vec2_mul(FanDir(dir, k - 3),
                                          RMul(atk_speed, <<4, 5>>)),
                                 b.next_atk + k - 1)],
                       !.next_atk = @ + 5]

Boss_apply_glitch(rage, p, rnd) ==
    LET p1 == [p EXCEPT !.glitch_effect_timer =
                            RAdd(<<5, 2>>, RMul(rage, <<5, 2>>))]
    IN  IF rnd.effect = "size"
        THEN [p1 EXCEPT !.glitch_size_factor = rnd.size]
        ELSE IF rnd.effect = "flip" THEN [p1 EXCEPT !.glitch_flip_y = TRUE]
        ELSE IF rnd.effect = "color"
        THEN [p1 EXCEPT !.glitch_color_override = TRUE]
        ELSE [p1 EXCEPT !.position = Vec2_add(@, rnd.teleport)]

OffScreen(pos) ==
    \/ RLt(pos.x, R(-100)) \/ RLt(R(1380), pos.x)
    \/ RLt(pos.y, R(-100)) \/ RLt(R(820), pos.y)

\* one iteration of `for atk in self.attacks[:]`: st.attacks[st.i] is the attack
attack_step(st, dt, rage, rnd) ==
    LET atk == st.attacks[st.i]
        moved == [atk EXCEPT !.pos = Vec2_add(@, Vec2_mul(atk.vel, dt)),
                             !.t = RAdd(@, dt)]
    IN  IF LengthLt(Vec2_sub(moved.pos, st.player.position), R(30))
        THEN [attacks |-> RemoveAt(st.attacks, st.i),
              player |-> Boss_apply_glitch(rage, st.player, rnd), i |-> st.i]
        ELSE IF OffScreen(moved.pos)
        THEN [attacks |-> RemoveAt(st.attacks, st.i), player |-> st.player,
              i |-> st.i]
        ELSE [attacks |-> [st.attacks EXCEPT ![st.i] = moved],
              player |-> st.player, i |-> st.i + 1]

RECURSIVE update_attacks(_, _, _, _)
update_attacks(st, dt, rage, rnd) ==
    IF st.i > Len(st.attacks) THEN st
    ELSE Strict(attack_step(st, dt, rage, rnd),
                LAMBDA s : update_attacks(s, dt, rage, rnd))

\* Boss._dist_point_to_segment(p, a, b) is the length of this vector
offset_point_to_segment(p, a, b) ==
    LET l2 == Vec2_length_squared(Vec2_sub(a, b))
    IN  IF l2 = RZero THEN Vec2_sub(p, a)
        ELSE LET t == RMax(RZero,
                           RMin(ROne, RDiv(Vec2_dot(Vec2_sub(p, a),
                                                    Vec2_sub(b, a)), l2)))
                 projection == Vec2_add(a, Vec2_mul(Vec2_sub(b, a), t))
             IN  Vec2_sub(p, projection)

\* one iteration of `for ray in self.noise_rays[:]`
ray_step(st, dt) ==
    LET ray == [st.rays[st.i] EXCEPT !.timer = RSub(@, dt)]
    IN  IF RLt(RZero, ray.timer)
        THEN [rays |-> [st.rays EXCEPT ![st.i] = ray],
              player |->
                  IF LengthLt(offset_point_to_segment(st.player.position,
                                                      ray.start, ray.end),
                              RAdd(st.player.r, R(15)))
                  THEN [st.player EXCEPT !.memory = RSub(@, RMul(R(8), dt))]
                  ELSE st.player,
              i |-> st.i + 1]
        ELSE [rays |-> RemoveAt(st.rays, st.i), player |-> st.player,
              i |-> st.i]

RECURSIVE update_rays(_, _)
update_rays(st, dt) ==
    IF st.i > Len(st.rays) THEN st
    ELSE Strict(ray_step(st, dt), LAMBDA s : update_rays(s, dt))

\* Boss.update from `self.anim_t += dt` to the attack scheduling
Boss_think(b, dt, p, rnd) ==
    LET rage == Boss_rage(b)
        b1 == [b EXCEPT !.anim_t = RAdd(@, dt),
                        !.rage = rage,
                        !.rage_boost = IF RLt(<<1, 10>>, @)
                                       THEN RSub(@, RMul(<<3, 100>>, dt)) ELSE @,
                        !.body = apply_force(@,
                                     Vec2_mul(Vec2_sub(rnd.target, b.body.position),
                                              R(5))),
                        !.attack_timer = RSub(@, RMul(dt, RAdd(ROne, rage)))]
    IN  IF RLe(b1.attack_timer, RZero)
        THEN [Boss_trigger_attack(b1, p, rnd) EXCEPT !.attack_timer =
                 RDiv(rnd.uniform, RAdd(ROne, RMul(rage, <<3, 2>>)))]
        ELSE b1

\* the dash damage at the end of Boss.update
Boss_dash_damage(b, p) ==
    LET away == Vec2_sub(b.body.position, p.position)
    IN  IF p.is_dashing /\ LengthLt(away, RAdd(b.r, R(25)))
        THEN [boss |-> [b EXCEPT !.hp = @ - 15,
                                 !.rage_boost = RAdd(@, <<3, 25>>),
                                 !.body.velocity =
                                     Vec2_add(@, Vec2_mul(Vec2_normalized(away),
                                                          R(600))),
                                 !.is_dead = IF b.hp - 15 <= 0 THEN TRUE ELSE @],
              player |-> p, hit |-> 1]
        ELSE [boss |-> b, player |-> p, hit |-> 0]

Boss_is_dead_ignored(b) == FALSE

\* `if self.is_dead`
Boss_is_dead(b) == b.is_dead

Boss_frozen_never(b) == FALSE

\* `if self.freeze_timer > 0`
Boss_frozen(b) == RLt(RZero, b.freeze_timer)

Boss_update(b, dt, p, rnd) ==
    IF Boss_is_dead(b) THEN [boss |-> b, player |-> p, hit |-> 0]
    ELSE IF Boss_frozen(b)
    THEN [boss |-> [b EXCEPT !.freeze_timer = RSub(@, dt)], player |-> p,
          hit |-> 0]
    ELSE Strict(Boss_think(b, dt, p, rnd), LAMBDA b1 :
         Strict(update_attacks([attacks |-> b1.attacks, player |-> p, i |-> 1],
                               dt, b1.rage, rnd), LAMBDA s1 :
         Strict(update_rays([rays |-> b1.noise_rays, player |-> s1.player,
                             i |-> 1], dt), LAMBDA s2 :
             Boss_dash_damage([b1 EXCEPT !.attacks = s1.attacks,
                                         !.noise_rays = s2.rays],
                              s2.player))))

Boss_freeze(b, duration) ==
    LET boost == RSub(b.rage_boost, <<2, 5>>)
    IN  [b EXCEPT !.freeze_timer = duration,
                  !.rage_boost = IF RLt(boost, <<-1, 2>>) THEN <<-1, 2>>
                                 ELSE boost]


(***************************************************************************)
(* The boss on its own: Boss.update and Boss.freeze called on one Boss     *)
(* object, the player's position and dash state being inputs of every      *)
(* update.  The boss starts as constructed, or as it is after a series of  *)
(* dash hits and quiet seconds: each hit takes 15 hp and adds 0.12 to      *)
(* rage_boost, each quiet second takes 0.03 back down to 0.1.              *)
(***************************************************************************)
MaxFrames == 3

BossPos == VI(640, 200)
\* the player's position and dash state at an update: in reach of the boss
\* (60 away) or out of reach (330 away)
PlayerInputs == {<<VI(676, 248), TRUE>>, <<VI(676, 248), FALSE>>,
                 <<VI(640, 530), FALSE>>}
BossDts == {<<1, 2>>, R(1)}
\* kill_all is the only caller of freeze
FreezeDurations == {R(2)}
Targets == {VI(640, 300)}
Uniforms == {<<5, 2>>}
Jitters == {VI(0, 0)}
Teleports == {VI(-36, -48), VI(0, -45)}
GlitchSizes == {<<5, 2>>}
Schedules ==
    {[kind |-> k, uniform |-> u, jitter |-> VI(0, 0)] :
        k \in {"arrow", "cluster"}, u \in Uniforms}
    \cup {[kind |-> "ray", uniform |-> u, jitter |-> j] :
             u \in Uniforms, j \in Jitters}
\* v.length() is a rational number (math.sqrt is computed exactly here)
RationalLength(v) ==
    LET lsq == Vec2_length_squared(v)
    IN  /\ \E r \in 0..1500 : r * r = lsq[1]
        /\ \E r \in 0..1500 : r * r = lsq[2]
\* the draws of _apply_glitch for the player p hit near the boss b; of the
\* teleports, those that leave the player at a rational distance of the boss
Glitches(b, p) ==
    {[effect |-> "size", size |-> z, teleport |-> VI(0, 0)] : z \in GlitchSizes}
    \cup {[effect |-> e, size |-> ROne, teleport |-> VI(0, 0)] :
             e \in {"flip", "color"}}
    \cup {[effect |-> "teleport", size |-> ROne, teleport |-> t] :
             t \in {u \in Teleports :
                       RationalLength(Vec2_sub(Vec2_add(p.position, u),
                                               b.body.position))}}
Rnd(tg, sc, g) ==
    [target |-> tg, kind |-> sc.kind, uniform |-> sc.uniform,
     jitter |-> sc.jitter, effect |-> g.effect, size |-> g.size,
     teleport |-> g.teleport]
NoSchedule == [kind |-> "arrow", uniform |-> R(1), jitter |-> VI(0, 0)]
NoGlitch == [effect |-> "flip", size |-> ROne, teleport |-> VI(0, 0)]

\* some attack of b reaches the player p in an update with dt
ReachesPlayer(b, dt, p) ==
    \E k \in 1..Len(b.attacks) :
        LengthLt(Vec2_sub(Vec2_add(b.attacks[k].pos,
                                   Vec2_mul(b.attacks[k].vel, dt)),
                          p.position), R(30))

\* the random draws that an update of the boss b can make use of
BossRnd(b, dt, p) ==
    IF b.is_dead \/ RLt(RZero, b.freeze_timer)
    THEN {Rnd(VI(640, 300), NoSchedule, NoGlitch)}
    ELSE LET fires == RLe(RSub(b.attack_timer,
                               RMul(dt, RAdd(ROne, Boss_rage(b)))), RZero)
         IN  UNION {UNION {{Rnd(tg, sc, g) :
                              g \in IF ReachesPlayer(b1, dt, p) THEN Glitches(b, p)
                                    ELSE {NoGlitch}} :
                           b1 \in {Boss_think(b, dt, p, Rnd(tg, sc, NoGlitch))}} :
                       tg \in Targets,
                       sc \in IF fires THEN Schedules ELSE {NoSchedule}}

\* the states of the boss state machine
Dead == boss[1].is_dead
Frozen == ~boss[1].is_dead /\ RLt(RZero, boss[1].freeze_timer)
Active == ~boss[1].is_dead /\ ~RLt(RZero, boss[1].freeze_timer)

\* Boss.update called with the player at pos; the updates of a frozen boss
\* are not counted in frames, there are finitely many of them
BossUpdate(dt, pos, dash) ==
    /\ frames < MaxFrames \/ Frozen
    /\ \E p \in {[player EXCEPT !.position = pos, !.is_dashing = dash]} :
       \E r \in {Boss_update(boss[1], dt, p, rnd) : rnd \in BossRnd(boss[1], dt, p)} :
          /\ boss' = Some(r.boss)
          /\ player' = r.player
          /\ ret' = r.hit
    /\ frames' = IF frames < MaxFrames THEN frames + 1 ELSE frames
    /\ op' = [name |-> "boss_update", dt |-> dt]
    /\ UNCHANGED <<enemies, platforms, next_id>>

BossFreeze(duration) ==
    /\ frames < MaxFrames
    /\ boss' = Some(Boss_freeze(boss[1], duration))
    /\ frames' = frames + 1
    /\ op' = [name |-> "freeze", duration |-> duration]
    /\ UNCHANGED <<player, enemies, platforms, ret, next_id>>

\* nothing of the engine and the mixer is in use
EngineUnused ==
    /\ bodies = [i \in Ids |-> RigidBody(VZero, VZero, ROne, RZero, ROne, TRUE)]
    /\ phys_bodies = <<>>
    /\ gravity = VZero
    /\ circles = <<>>
    /\ rects = <<>>
    /\ tests = <<>>
    /\ steps = 0
    /\ raised = FALSE

\* hp, rage_boost, freeze_timer and attack_timer of the boss at the start: as
\* constructed; with the attack timer about to expire; after nine hits in a
\* row; after nineteen hits and quiet seconds; after two freezes; after one
\* hit and three and a half quiet seconds (0.1 + 0.12 - 0.03 * 3.5)
BossStarts ==
    {<<300, <<1, 10>>, RZero, R(2)>>, <<300, <<1, 10>>, RZero, <<1, 2>>>>,
     <<165, <<53, 50>>, RZero, <<1, 2>>>>, <<15, <<1, 10>>, RZero, <<1, 2>>>>,
     <<300, <<-1, 2>>, <<1, 2>>, <<1, 2>>>>,
     <<285, <<23, 200>>, RZero, R(2)>>}

InitBoss ==
    /\ EngineUnused
    /\ SoundIdle
    /\ op = [name |-> "init"]
    /\ player = MemoryPlayer(VI(100, 580), 1)
    /\ \E st \in BossStarts :
          boss = Some([Boss(BossPos, 2) EXCEPT !.hp = st[1], !.rage_boost = st[2],
                                               !.freeze_timer = st[3],
                                               !.attack_timer = st[4]])
    /\ enemies = <<>>
    /\ platforms = <<>>
    /\ ret = 0
    /\ next_id = 3
    /\ frames = 0
    /\ game = <<>>

bossIdle == UNCHANGED <<engineVars, raised, soundVars, game>>

NextBoss ==
    \/ \E dt \in BossDts, pin \in PlayerInputs :
          BossUpdate(dt, pin[1], pin[2]) /\ bossIdle
    \/ \E d \in FreezeDurations : BossFreeze(d) /\ bossIdle

SpecBoss == InitBoss /\ [][NextBoss]_vars

\* the same behaviours when updates with dt > 0 keep coming to a Frozen boss
SpecBossLive ==
    SpecBoss /\ WF_vars(Frozen /\ \E dt \in BossDts, pin \in PlayerInputs :
                                     BossUpdate(dt, pin[1], pin[2]) /\ bossIdle)

(***************************************************************************)
(* Claims about the boss.                                                  *)
(***************************************************************************)
\* C11: in every state of the boss, after any updates, dash hits and freeze
\* calls, 0 <= rage <= 1.
C11_RageBounded ==
    RLe(RZero, boss[1].rage) /\ RLe(boss[1].rage, ROne)

\* an update has just set rage to 1 with rage_boost itself above 1, or to 0
\* with rage_boost at its floor -0.5
C11_Witness ==
    /\ op.name = "boss_update"
    /\ \/ boss[1].rage = ROne /\ RLt(ROne, boss[1].rage_boost)
       \/ /\ boss[1].rage = RZero
          /\ boss[1].rage_boost = <<-1, 2>>
          /\ boss[1].anim_t # RZero

\* C14: the boss becomes Dead only in an update in which the dashing player is
\* within r + 25 of it and the hit of 15 leaves hp <= 0; a Dead boss stays
\* Dead, and an update of a Dead boss leaves hp, rage, the attacks and the
\* noise rays as they were and reports no hit.
C14_DeadIsTerminal ==
    [][/\ (~boss[1].is_dead /\ boss'[1].is_dead) =>
              /\ op'.name = "boss_update"
              /\ player'.is_dashing
              /\ LengthLt(Vec2_sub(boss[1].body.position, player'.position),
                          RAdd(boss[1].r, R(25)))
              /\ boss'[1].hp = boss[1].hp - 15
              /\ boss'[1].hp <= 0
              /\ ret' = 1
       /\ boss[1].is_dead =>
              /\ boss'[1].is_dead
              /\ op'.name = "boss_update" =>
                     /\ boss'[1].hp = boss[1].hp
                     /\ boss'[1].rage = boss[1].rage
                     /\ boss'[1].attacks = boss[1].attacks
                     /\ boss'[1].noise_rays = boss[1].noise_rays
                     /\ ret' = 0]_vars

\* an update has just been called on a boss killed earlier, with attacks still
\* in its list and the dashing player in reach
C14_Witness ==
    /\ boss[1].is_dead
    /\ boss[1].hp <= 0
    /\ op.name = "boss_update"
    /\ ret = 0
    /\ boss[1].attacks # <<>>
    /\ player.is_dashing

\* where the attack atk is after dt
Advanced(atk, dt) == Vec2_add(atk.pos, Vec2_mul(atk.vel, dt))

\* C15: an update of a Frozen boss adds no attack and no noise ray and applies
\* no force to the body, and every attack in flight has moved by vel * dt.
C15_FrozenStillIntegrates ==
    [][(op'.name = "boss_update" /\ Frozen) =>
          /\ Len(boss'[1].attacks) <= Len(boss[1].attacks)
          /\ Len(boss'[1].noise_rays) <= Len(boss[1].noise_rays)
          /\ boss'[1].body = boss[1].body
          /\ \A k \in 1..Len(boss[1].attacks) :
                \/ \E j \in 1..Len(boss'[1].attacks) :
                      /\ boss'[1].attacks[j].pos =
                             Advanced(boss[1].attacks[k], op'.dt)
                      /\ boss'[1].attacks[j].vel = boss[1].attacks[k].vel
                \/ OffScreen(Advanced(boss[1].attacks[k], op'.dt))
                \/ LengthLt(Vec2_sub(Advanced(boss[1].attacks[k], op'.dt),
                                     player'.position), R(30))]_vars

\* C16: an update of a boss that is not Dead is a frozen one exactly when
\* freeze_timer > 0: it takes dt off the timer that freeze(d) set to d and
\* changes nothing else; otherwise it is an active one: anim_t advances, rage
\* is recomputed, the movement force is applied and the attack timer counts
\* down (or is reset); and a Frozen boss always becomes Active again.
C16_FreezeExpires ==
    /\ [][/\ (op'.name = "freeze" /\ op'.duration # RZero) =>
                 boss'[1].freeze_timer = op'.duration
          /\ (op'.name = "boss_update" /\ Frozen) =>
                 /\ boss' = Some([boss[1] EXCEPT !.freeze_timer =
                                                    RSub(@, op'.dt)])
                 /\ ret' = 0
          /\ (op'.name = "boss_update" /\ Active) =>
                 /\ boss'[1].anim_t = RAdd(boss[1].anim_t, op'.dt)
                 /\ boss'[1].rage = Boss_rage(boss[1])
                 /\ boss'[1].body.acceleration # boss[1].body.acceleration
                 /\ LET left == RSub(boss[1].attack_timer,
                                      RMul(op'.dt, RAdd(ROne, boss'[1].rage)))
                    IN  IF RLe(left, RZero)
                        THEN RLt(RZero, boss'[1].attack_timer)
                        ELSE boss'[1].attack_timer = left
                 /\ boss'[1].freeze_timer = boss[1].freeze_timer]_vars
    /\ (Frozen ~> Active)

\* the boss, frozen after a freeze call, has been updated until the timer ran
\* out and then once more, as an Active boss
C16_Witness ==
    /\ Active
    /\ op.name = "boss_update"
    /\ boss[1].anim_t # RZero
    /\ RLt(boss[1].rage_boost, <<1, 10>>)
    /\ RLe(boss[1].freeze_timer, RZero)

(***************************************************************************)
(* Platforms (src/game/level.py) and the EnemyManager (src/game/enemies.py)*)
(* with the part of MemoryParasiteGame.on_update that consumes what        *)
(* EnemyManager.update returns (src/game/game.py).                         *)
(* A platform and a RigidBody have an identity: id(p) of a platform is its *)
(* field id, the identity of a body is the bid of its owner.  phys_bodies  *)
(* is PhysicsWorld.bodies, a list of bodies named by bid; the bodies of    *)
(* the game differ in mass or position, so that list.remove, which looks   *)
(* for an equal element, finds the body itself.  The game of the model is  *)
(* on level10, the level of the boss; its corruption manager exists, as it *)
(* does from the first on_update on.                                       *)
(***************************************************************************)
\* the fields of Platform that EnemyManager.update and the ghost spawning
\* read; memory_min, fragment_req, blink_freq are None and is_hidden False
Platform(id, x, y, w, h, memory_req) ==
    [id |-> id, x |-> R(x), y |-> R(y), w |-> R(w), h |-> R(h),
     memory_req |-> memory_req, is_lost |-> FALSE]

get_visible_platforms(plats, player_memory_percent) ==
    SelectSeq(plats, LAMBDA p : \/ p.memory_req = None
                                \/ RLe(player_memory_percent, p.memory_req[1]))

\* p.x < pos.x < p.x + p.w and p.y < pos.y < p.y + p.h
Inside(p, pos) ==
    /\ RLt(p.x, pos.x) /\ RLt(pos.x, RAdd(p.x, p.w))
    /\ RLt(p.y, pos.y) /\ RLt(pos.y, RAdd(p.y, p.h))

Enemy(pos, bid) ==
    [body |-> RigidBody(pos, VZero, <<1, 2>>, <<1, 20>>, <<1, 2>>, FALSE),
     bid |-> bid, r |-> R(20), hp |-> 1, dmg |-> R(20), spawn_pos |-> pos,
     anim_t |-> RZero, speed |-> R(150), is_dissolving |-> FALSE,
     dissolve_t |-> RZero]

\* PhysicsWorld.remove_body on a list of bodies
world_remove(list, bid) ==
    IF InList(list, bid) THEN RemoveFirst(list, bid) ELSE list

already_penetrating_forgotten(atk, p) == FALSE

\* `if atk.get('penetrating_p') == id(p)`
already_penetrating(atk, p) == atk.penetrating_p = p.id

\* `for p in visible_platforms` for the attack atk, from the j-th platform on;
\* exploded is the id of the platform the attack crashed into, 0 if none
RECURSIVE check_platforms(_, _, _)
check_platforms(atk, vis, j) ==
    IF j > Len(vis) THEN [atk |-> atk, exploded |-> 0]
    ELSE IF Inside(vis[j], atk.pos)
    THEN IF already_penetrating(atk, vis[j])
         THEN check_platforms(atk, vis, j + 1)
         ELSE IF ~atk.penetrated
         THEN [atk |-> [atk EXCEPT !.penetrated = TRUE,
                                   !.penetrating_p = vis[j].id,
                                   !.vel = Vec2_mul(@, <<1, 2>>)],
               exploded |-> 0]
         ELSE [atk |-> atk, exploded |-> vis[j].id]
    ELSE check_platforms(IF already_penetrating(atk, vis[j])
                         THEN [atk EXCEPT !.penetrating_p = 0] ELSE atk,
                         vis, j + 1)

\* one iteration of `for atk in self.boss.attacks[:]`; explode_attack takes
\* the attack off the list (two attacks of a boss are never equal dicts: they
\* differ in t or in vel)
arrow_step(st, vis) ==
    LET r == check_platforms(st.attacks[st.i], vis, 1)
    IN  IF r.exploded # 0
        THEN [attacks |-> RemoveAt(st.attacks, st.i), i |-> st.i,
              exploded |-> st.exploded \cup {<<r.atk.id, r.exploded>>}]
        ELSE [attacks |-> [st.attacks EXCEPT ![st.i] = r.atk], i |-> st.i + 1,
              exploded |-> st.exploded]

RECURSIVE check_arrows(_, _)
check_arrows(st, vis) ==
    IF st.i > Len(st.attacks) THEN st
    ELSE Strict(arrow_step(st, vis), LAMBDA s : check_arrows(s, vis))

\* `if dist > 0: ... e.body.apply_force((dir * e.speed + noise) * 5.0)`
chase(e, player_pos, noise) ==
    LET to_player == Vec2_sub(player_pos, e.body.position)
    IN  IF to_player = VZero THEN e.body
        ELSE apply_force(e.body,
                 Vec2_mul(Vec2_add(Vec2_mul(Vec2_normalized(to_player), e.speed),
                                   Vec2_mul(noise, R(50))), R(5)))

\* `if e.body.velocity.length() > 250`
cap_velocity(body) ==
    IF RLt(R(62500), Vec2_length_squared(body.velocity))
    THEN [body EXCEPT !.velocity = Vec2_mul(Vec2_normalized(@), R(250))]
    ELSE body

dissolved_at_half(t) == RLe(<<1, 2>>, t)

\* `if e.dissolve_t > 0.5`
dissolved(t) == RLt(<<1, 2>>, t)

\* one iteration of `for e in self.enemies[:]`
enemy_step(st, dt, p, noise) ==
    LET e == st.enemies[st.i]
        t == RAdd(e.dissolve_t, dt)
        body == cap_velocity(chase(e, p.position, noise))
        e1 == [e EXCEPT !.anim_t = RAdd(@, RMul(dt, R(4))), !.body = body]
        hit == circle_vs_circle_hit(body.position, e.r, p.position,
                                    RDiv(p.width, R(2)))
    IN  IF e.is_dissolving /\ dissolved(t)
        THEN [st EXCEPT !.enemies = RemoveAt(@, st.i),
                        !.phys = world_remove(@, e.bid)]
        ELSE IF e.is_dissolving
        THEN [st EXCEPT !.enemies[st.i].dissolve_t = t, !.i = @ + 1]
        ELSE IF hit /\ p.is_dashing
        THEN [st EXCEPT !.enemies[st.i] = [e1 EXCEPT !.is_dissolving = TRUE],
                        !.i = @ + 1]
        ELSE IF hit
        THEN [st EXCEPT !.enemies[st.i] = e1, !.i = @ + 1,
                        !.events = Append(@, <<e.dmg, body.position>>)]
        ELSE [st EXCEPT !.enemies[st.i] = e1, !.i = @ + 1]

RECURSIVE update_enemies(_, _, _, _)
update_enemies(st, dt, p, noise) ==
    IF st.i > Len(st.enemies) THEN st
    ELSE Strict(enemy_step(st, dt, p, noise),
                LAMBDA s : update_enemies(s, dt, p, noise))

\* the `if self.boss:` part of EnemyManager.update; b is the boss, phys the
\* list of the physics world
update_boss(b, phys, dt, p, plats, rnd) ==
    Strict(Boss_update(b, dt, p, rnd), LAMBDA r :
        IF r.boss.is_dead
        THEN [boss |-> None, phys |-> world_remove(phys, b.bid),
              player |-> r.player, boss_hit |-> r.hit > 0,
              noise_hit |-> FALSE, visible |-> <<>>, exploded |-> {}]
        ELSE Strict(get_visible_platforms(plats, RDiv(r.player.memory,
                                                      r.player.max_mem)),
                    LAMBDA vis :
             Strict(check_arrows([attacks |-> r.boss.attacks, i |-> 1,
                                  exploded |-> {}], vis), LAMBDA s :
                [boss |-> Some([r.boss EXCEPT !.attacks = s.attacks]),
                 phys |-> phys, player |-> r.player, boss_hit |-> r.hit > 0,
                 noise_hit |->
                     \E k \in 1..Len(r.boss.noise_rays) :
                        LengthLt(offset_point_to_segment(
                                     r.player.position,
                                     r.boss.noise_rays[k].start,
                                     r.boss.noise_rays[k].end),
                                 RAdd(r.player.r, R(10))),
                 visible |-> [k \in 1..Len(vis) |-> vis[k].id],
                 exploded |-> s.exploded])))

\* EnemyManager.update; em is the manager: its boss, its enemies and the
\* list of its physics world
EnemyManager_update(em, dt, p, plats, rnd, noise) ==
    Strict(IF em.boss = None
           THEN [boss |-> None, phys |-> em.phys, player |-> p,
                 boss_hit |-> FALSE, noise_hit |-> FALSE, visible |-> <<>>,
                 exploded |-> {}]
           ELSE update_boss(em.boss[1], em.phys, dt, p, plats, rnd),
           LAMBDA r :
    Strict(update_enemies([enemies |-> em.enemies, phys |-> r.phys,
                           events |-> <<>>, i |-> 1], dt, r.player, noise),
           LAMBDA s :
        [boss |-> r.boss, enemies |-> s.enemies, phys |-> s.phys,
         player |-> r.player, visible |-> r.visible, exploded |-> r.exploded,
         res |-> [events |-> s.events, noise_hit |-> r.noise_hit,
                  boss_hit |-> r.boss_hit]]))

\* EnemyManager.kill_all
EnemyManager_kill_all(em) ==
    [em EXCEPT !.enemies = [k \in 1..Len(@) |-> [@[k] EXCEPT !.is_dissolving = TRUE]],
               !.boss = IF @ = None THEN None
                        ELSE Some(Boss_freeze(@[1], R(2)))]

RECURSIVE remove_bodies(_, _)
remove_bodies(phys, es) ==
    IF es = <<>> THEN phys
    ELSE remove_bodies(world_remove(phys, Head(es).bid), Tail(es))

\* EnemyManager.reset_for_death
EnemyManager_reset_for_death(em, keep_boss) ==
    LET phys == remove_bodies(em.phys, em.enemies)
    IN  IF em.boss # None /\ ~keep_boss
        THEN [boss |-> None, enemies |-> <<>>,
              phys |-> world_remove(phys, em.boss[1].bid)]
        ELSE [boss |-> em.boss, enemies |-> <<>>, phys |-> phys]

\* `for dmg, pos in enemy_res['events']` on level10: memory -= dmg * 0.4
RECURSIVE take_damage(_, _)
take_damage(p, events) ==
    IF events = <<>> THEN p
    ELSE take_damage([p EXCEPT !.memory = RSub(@, RMul(Head(events)[1], <<2, 5>>))],
                     Tail(events))

(***************************************************************************)
(* The enemies of level10 in play.  GameUpdate is the part of on_update    *)
(* from the call of EnemyManager.update to the handling of a boss hit; the *)
(* player's position and dash state, which the earlier part of on_update   *)
(* sets, are inputs.  SpawnGhosts is the ghost spawning of on_update,      *)
(* KillAll and ResetForDeath are the calls of these methods.  The game     *)
(* starts with a boss that has shot an arrow at a player below it a        *)
(* quarter of a second ago, or with a boss that one more hit kills; and    *)
(* with no ghost, or with the ghost of the first platform.                 *)
(***************************************************************************)
\* the platforms of the level: two that are always there, one on top of the
\* other, and one across both that shows when memory is at 95 % or less
LevelPlatforms ==
    <<Platform(1, 600, 500, 80, 120, None), Platform(2, 600, 680, 80, 40, None),
      Platform(3, 560, 600, 160, 100, Some(<<19, 20>>))>>

GameDts == {<<1, 4>>, <<1, 2>>}
\* the player at an update: dashing into the boss, next to the first ghost
\* (15 away) dashing or not, and exactly on the first ghost
GamePlayerInputs ==
    {<<VI(640, 260), TRUE>>, <<VI(640, 575), TRUE>>, <<VI(640, 575), FALSE>>,
     <<VI(640, 560), FALSE>>}
\* Vec2(math.sin(e.anim_t), math.cos(e.anim_t))
Noises == {Vec2(<<3, 5>>, <<4, 5>>)}

\* the centre of a platform, where its ghost spawns
Centre(p) ==
    Vec2(RAdd(p.x, RDiv(p.w, R(2))), RAdd(p.y, RDiv(p.h, R(2))))

\* the platforms lose_random_platforms can take
LoseTargets == {k \in 1..Len(platforms) :
                   ~platforms[k].is_lost /\ platforms[k].memory_req = None}

GameUpdate(dt, pos, dash, noise) ==
    /\ frames < MaxFrames
    /\ \E p \in {[player EXCEPT !.position = pos, !.is_dashing = dash]} :
       \E r \in {EnemyManager_update([boss |-> boss, enemies |-> enemies,
                                      phys |-> phys_bodies],
                                     dt, p, platforms, rnd, noise) :
                    rnd \in IF boss = None
                            THEN {Rnd(VI(640, 300), NoSchedule, NoGlitch)}
                            ELSE BossRnd(boss[1], dt, p)} :
       \E p1 \in {take_damage(r.player, r.res.events)} :
          /\ boss' = r.boss
          /\ phys_bodies' = r.phys
          /\ ret' = r.res
          /\ op' = [name |-> "update", dt |-> dt, dash |-> dash,
                    player_pos |-> r.player.position, visible |-> r.visible,
                    exploded |-> r.exploded,
                    removed |-> {enemies[k].bid : k \in 1..Len(enemies)}
                                \ {r.enemies[k].bid : k \in 1..Len(r.enemies)}]
          /\ IF r.res.boss_hit /\ r.boss = None
             THEN /\ enemies' = <<>>
                  /\ platforms' = <<>>
                  /\ player' = [p1 EXCEPT !.position = VI(640, 570)]
             ELSE /\ enemies' = r.enemies
                  /\ platforms' = platforms
                  /\ player' = p1
    /\ frames' = frames + 1
    /\ UNCHANGED next_id

\* lose_random_platforms(count) and spawn_lost_ghost at each lost platform;
\* picks is the sample of the platforms, a list of one or two of them
SpawnGhosts(picks) ==
    /\ frames < MaxFrames
    /\ \A k \in 1..Len(picks) : picks[k] \in LoseTargets
    /\ platforms' = [k \in 1..Len(platforms) |->
                        IF \E j \in 1..Len(picks) : picks[j] = k
                        THEN [platforms[k] EXCEPT !.is_lost = TRUE]
                        ELSE platforms[k]]
    /\ enemies' = enemies \o [j \in 1..Len(picks) |->
                                 Enemy(Centre(platforms[picks[j]]),
                                       next_id + j - 1)]
    /\ phys_bodies' = phys_bodies \o [j \in 1..Len(picks) |-> next_id + j - 1]
    /\ next_id' = next_id + Len(picks)
    /\ frames' = frames + 1
    /\ op' = [name |-> "spawn", picks |-> picks]
    /\ UNCHANGED <<player, boss, ret>>

KillAll ==
    /\ frames < MaxFrames
    /\ \E em \in {EnemyManager_kill_all([boss |-> boss, enemies |-> enemies,
                                         phys |-> phys_bodies])} :
          /\ boss' = em.boss
          /\ enemies' = em.enemies
    /\ frames' = frames + 1
    /\ op' = [name |-> "kill_all"]
    /\ UNCHANGED <<player, platforms, phys_bodies, ret, next_id>>

ResetForDeath(keep_boss) ==
    /\ frames < MaxFrames
    /\ \E em \in {EnemyManager_reset_for_death(
                      [boss |-> boss, enemies |-> enemies,
                       phys |-> phys_bodies], keep_boss)} :
          /\ boss' = em.boss
          /\ enemies' = em.enemies
          /\ phys_bodies' = em.phys
    /\ frames' = frames + 1
    /\ op' = [name |-> "reset_for_death", keep_boss |-> keep_boss]
    /\ UNCHANGED <<player, platforms, ret, next_id>>

\* the boss after its arrow shot: the arrow, fired from the boss at the speed
\* of rage 0.1, has flown for dt = 0.25
BossAfterShot ==
    [Boss(BossPos, 2) EXCEPT
        !.rage = <<1, 10>>, !.anim_t = <<1, 4>>, !.next_atk = 2,
        !.attacks = <<[Attack(VI(640, 365), VI(0, 660), 1) EXCEPT
                          !.t = <<1, 4>>]>>]
\* the boss after nineteen hits and quiet seconds
BossNearDeath == [Boss(BossPos, 2) EXCEPT !.hp = 15, !.rage = ROne]

InitGame ==
    /\ bodies = [i \in Ids |-> RigidBody(VZero, VZero, ROne, RZero, ROne, TRUE)]
    /\ gravity = VZero
    /\ circles = <<>>
    /\ rects = <<>>
    /\ tests = <<>>
    /\ steps = 0
    /\ raised = FALSE
    /\ SoundIdle
    /\ op = [name |-> "init"]
    /\ player = MemoryPlayer_update_velocity(MemoryPlayer(VI(100, 580), 1))
    /\ boss \in {Some(BossAfterShot), Some(BossNearDeath)}
    /\ \/ /\ enemies = <<>>
          /\ platforms = LevelPlatforms
          /\ phys_bodies = <<1, 2>>
          /\ next_id = 3
       \/ /\ enemies = <<Enemy(Centre(LevelPlatforms[1]), 3)>>
          /\ platforms = [LevelPlatforms EXCEPT ![1].is_lost = TRUE]
          /\ phys_bodies = <<1, 2, 3>>
          /\ next_id = 4
    /\ ret = [events |-> <<>>, noise_hit |-> FALSE, boss_hit |-> FALSE]
    /\ frames = 0
    /\ game = <<>>

gameIdle == UNCHANGED <<bodies, gravity, circles, rects, tests, steps, raised,
                        soundVars, game>>

NextGame ==
    \/ \E dt \in GameDts, pin \in GamePlayerInputs, noise \in Noises :
          GameUpdate(dt, pin[1], pin[2], noise) /\ gameIdle
    \/ \E picks \in {<<1>>, <<2>>, <<1, 2>>, <<2, 1>>} :
          SpawnGhosts(picks) /\ gameIdle
    \/ KillAll /\ gameIdle
    \/ \E keep_boss \in BOOLEAN : ResetForDeath(keep_boss) /\ gameIdle

SpecGame == InitGame /\ [][NextGame]_vars

(***************************************************************************)
(* Claims about the enemies in play.                                       *)
(***************************************************************************)
\* the ids of the visible platforms of the update that has pos strictly inside
InsideVisible(visible, pos) ==
    {visible[v] : v \in {w \in 1..Len(visible) :
                            \E k \in 1..Len(platforms) :
                               /\ platforms[k].id = visible[w]
                               /\ Inside(platforms[k], pos)}}

\* C12: in an update that leaves the boss alive, an arrow on the list after
\* the update is penetrated exactly if it was before or is now strictly inside
\* a visible platform; its velocity is halved exactly in the update in which
\* penetrated becomes true, hence once; an arrow that was penetrated and is
\* still on the list is inside no visible platform but the one it remembers;
\* and an arrow explodes only if it was penetrated before, on a platform other
\* than the one it remembers, and is then off the list.
C12_OneFreePlatform ==
    [][(op'.name = "update" /\ boss # None /\ boss' # None) =>
          LET pre == boss[1].attacks
              post == boss'[1].attacks
          IN  /\ \A j \in 1..Len(post) : \A k \in 1..Len(pre) :
                    pre[k].id = post[j].id =>
                       LET in == InsideVisible(op'.visible, post[j].pos)
                       IN  /\ post[j].penetrated = (pre[k].penetrated \/ in # {})
                           /\ post[j].vel =
                                 IF ~pre[k].penetrated /\ post[j].penetrated
                                 THEN Vec2_mul(pre[k].vel, <<1, 2>>)
                                 ELSE pre[k].vel
                           /\ pre[k].penetrated => in \subseteq {pre[k].penetrating_p}
              /\ \A e \in op'.exploded :
                    /\ \E k \in 1..Len(pre) : /\ pre[k].id = e[1]
                                              /\ pre[k].penetrated
                                              /\ pre[k].penetrating_p # e[2]
                    /\ \A j \in 1..Len(post) : post[j].id # e[1]]_vars

\* the arrow of the start has gone through the first platform at half speed
\* for two updates and has crashed into the second one
C12_Witness ==
    /\ op.name = "update"
    /\ frames = 3
    /\ <<1, 2>> \in op.exploded
    /\ boss # None
    /\ \A j \in 1..Len(boss[1].attacks) : boss[1].attacks[j].id # 1

\* the enemies of the list es with the body bid
WithBid(es, bid) == {k \in 1..Len(es) : es[k].bid = bid}
\* the damage events of the update for an enemy at pos
EventsAt(events, dmg, pos) ==
    {k \in 1..Len(events) : events[k] = <<dmg, pos>>}
\* the enemy's circle and the player's circle are in contact as
\* circle_vs_circle has it: the centres are apart, by less than the radii
InContact(e, pos) ==
    circle_vs_circle_hit(e.body.position, e.r, pos, RDiv(player.width, R(2)))
\* the boss died in this step and the game emptied the level
BossDied == boss # None /\ boss' = None /\ op'.name = "update"

\* what an update does to a dissolving enemy and to an enemy a dashing player
\* touches: a dissolving enemy yields no damage event and stays dissolving
\* while it is on the list; it leaves the list and the physics world in the
\* update that takes dissolve_t beyond 0.5, and not before; an enemy a
\* dashing player touches becomes dissolving and yields no damage event
GhostDissolves ==
    /\ \A k \in 1..Len(enemies) : \A j \in WithBid(enemies', enemies[k].bid) :
          enemies[k].is_dissolving => enemies'[j].is_dissolving
    /\ op'.name = "update" =>
          \A k \in 1..Len(enemies) :
             LET e == enemies[k]
                 after == WithBid(enemies', e.bid)
             IN  /\ e.is_dissolving =>
                       /\ EventsAt(ret'.events, e.dmg, e.body.position) = {}
                       /\ IF RLt(<<1, 2>>, RAdd(e.dissolve_t, op'.dt))
                          THEN /\ after = {}
                               /\ ~InList(phys_bodies', e.bid)
                          ELSE /\ BossDied \/ after # {}
                               /\ \A j \in after :
                                     enemies'[j].dissolve_t =
                                         RAdd(e.dissolve_t, op'.dt)
                 /\ (~e.is_dissolving /\ InContact(e, op'.player_pos)
                     /\ op'.dash) =>
                       /\ EventsAt(ret'.events, e.dmg, e.body.position) = {}
                       /\ BossDied \/ after # {}
                       /\ \A j \in after : /\ enemies'[j].is_dissolving
                                           /\ enemies'[j].dissolve_t = RZero

\* the enemies a player that does not dash touches in the update
Touched == {k \in 1..Len(enemies) :
               /\ ~enemies[k].is_dissolving
               /\ InContact(enemies[k], op'.player_pos)
               /\ ~op'.dash}

C20_TrackedBodies ==
    /\ {phys_bodies[k] : k \in 1..Len(phys_bodies)} =
           {player.bid} \cup {enemies[k].bid : k \in 1..Len(enemies)}
                        \cup (IF boss = None THEN {} ELSE {boss[1].bid})
    /\ Len(phys_bodies) = Len(enemies) + 1 + Len(boss)

(***************************************************************************)
(* resolve_rect_vs_static (src/engine/collision.py).  A static rect is a   *)
(* record with x, y, w, h, as a Platform is; st is the body with the two   *)
(* flags the function returns.                                             *)
(***************************************************************************)
land_without_epsilon(r, height, epsilon) == RSub(r.y, RDiv(height, R(2)))

\* `ry - height / 2 - epsilon`, where a body closer to the top is put
land(r, height, epsilon) == RSub(RSub(r.y, RDiv(height, R(2))), epsilon)

resolve_y_flags_unguarded(st, r, width, height, pad_x, epsilon) ==
    LET px == RSub(st.body.position.x, RDiv(width, R(2)))
        py == RSub(st.body.position.y, RDiv(height, R(2)))
        overlap_top == RSub(RAdd(py, height), r.y)
        overlap_bottom == RSub(RAdd(r.y, r.h), py)
    IN  IF /\ RLt(RAdd(px, pad_x), RAdd(r.x, r.w))
           /\ RLt(r.x, RSub(RAdd(px, width), pad_x))
           /\ RLt(py, RAdd(r.y, r.h))
           /\ RLt(r.y, RAdd(py, height))
        THEN IF RLt(overlap_top, overlap_bottom)
             THEN [st EXCEPT !.body.position.y = land(r, height, epsilon),
                             !.body.velocity.y =
                                 IF RLt(RZero, st.body.velocity.y) THEN RZero
                                 ELSE @,
                             !.grounded = TRUE]
             ELSE [st EXCEPT !.body.position.y =
                                 RAdd(RAdd(RAdd(r.y, r.h), RDiv(height, R(2))),
                                      epsilon),
                             !.body.velocity.y =
                                 IF RLt(st.body.velocity.y, RZero) THEN RZero
                                 ELSE @,
                             !.hit_ceiling = TRUE]
        ELSE st

\* one iteration of pass 1, the vertical resolution against the rect r
resolve_y(st, r, width, height, pad_x, epsilon) ==
    LET px == RSub(st.body.position.x, RDiv(width, R(2)))
        py == RSub(st.body.position.y, RDiv(height, R(2)))
        overlap_top == RSub(RAdd(py, height), r.y)
        overlap_bottom == RSub(RAdd(r.y, r.h), py)
    IN  IF /\ RLt(RAdd(px, pad_x), RAdd(r.x, r.w))
           /\ RLt(r.x, RSub(RAdd(px, width), pad_x))
           /\ RLt(py, RAdd(r.y, r.h))
           /\ RLt(r.y, RAdd(py, height))
        THEN IF RLt(overlap_top, overlap_bottom)
             THEN [st EXCEPT !.body.position.y = land(r, height, epsilon),
                             !.body.velocity.y =
                                 IF RLt(RZero, st.body.velocity.y) THEN RZero
                                 ELSE @,
                             !.grounded = @ \/ RLt(RZero, st.body.velocity.y)]
             ELSE [st EXCEPT !.body.position.y =
                                 RAdd(RAdd(RAdd(r.y, r.h), RDiv(height, R(2))),
                                      epsilon),
                             !.body.velocity.y =
                                 IF RLt(st.body.velocity.y, RZero) THEN RZero
                                 ELSE @,
                             !.hit_ceiling = @ \/ RLt(st.body.velocity.y, RZero)]
        ELSE st

\* one iteration of pass 2, the horizontal resolution against the rect r
resolve_x(st, r, width, height, pad_y, epsilon) ==
    LET px == RSub(st.body.position.x, RDiv(width, R(2)))
        py == RSub(st.body.position.y, RDiv(height, R(2)))
        overlap_left == RSub(RAdd(px, width), r.x)
        overlap_right == RSub(RAdd(r.x, r.w), px)
    IN  IF /\ RLt(RAdd(py, pad_y), RAdd(r.y, r.h))
           /\ RLt(r.y, RSub(RAdd(py, height), pad_y))
           /\ RLt(px, RAdd(r.x, r.w))
           /\ RLt(r.x, RAdd(px, width))
        THEN IF RLt(overlap_left, overlap_right)
             THEN [st EXCEPT !.body.position.x =
                                 RSub(RSub(r.x, RDiv(width, R(2))), epsilon),
                             !.body.velocity.x =
                                 IF RLt(RZero, st.body.velocity.x) THEN RZero
                                 ELSE @]
             ELSE [st EXCEPT !.body.position.x =
                                 RAdd(RAdd(RAdd(r.x, r.w), RDiv(width, R(2))),
                                      epsilon),
                             !.body.velocity.x =
                                 IF RLt(st.body.velocity.x, RZero) THEN RZero
                                 ELSE @]
        ELSE st

RECURSIVE pass_y(_, _, _, _, _, _)
pass_y(st, rs, width, height, pad_x, epsilon) ==
    IF rs = <<>> THEN st
    ELSE pass_y(resolve_y(st, Head(rs), width, height, pad_x, epsilon),
                Tail(rs), width, height, pad_x, epsilon)

RECURSIVE pass_x(_, _, _, _, _, _)
pass_x(st, rs, width, height, pad_y, epsilon) ==
    IF rs = <<>> THEN st
    ELSE pass_x(resolve_x(st, Head(rs), width, height, pad_y, epsilon),
                Tail(rs), width, height, pad_y, epsilon)

resolve_rect_vs_static_x_first(body, width, height, static_rects, padding, epsilon) ==
    LET pad_x == RMin(padding, RMul(width, <<2, 5>>))
        pad_y == RMin(padding, RMul(height, <<2, 5>>))
    IN  pass_y(pass_x([body |-> body, grounded |-> FALSE,
                       hit_ceiling |-> FALSE],
                      static_rects, width, height, pad_y, epsilon),
               static_rects, width, height, pad_x, epsilon)

resolve_rect_vs_static(body, width, height, static_rects, padding, epsilon) ==
    LET pad_x == RMin(padding, RMul(width, <<2, 5>>))
        pad_y == RMin(padding, RMul(height, <<2, 5>>))
    IN  pass_x(pass_y([body |-> body, grounded |-> FALSE,
                       hit_ceiling |-> FALSE],
                      static_rects, width, height, pad_x, epsilon),
               static_rects, width, height, pad_y, epsilon)

(***************************************************************************)
(* The collision functions called on their own.  A state holds one call    *)
(* (op, drawn at the start) and what it returned (ret, empty before the    *)
(* call): circle_vs_circle on two circles, in both orders; rect_vs_rect on *)
(* two rects; resolve_rect_vs_static on a body and one platform with the   *)
(* default padding 4.0 and epsilon 0.01.                                   *)
(***************************************************************************)
\* the corners of a 3 x 4 rectangle: all distances are 0, 3, 4 or 5
Centres == {VI(0, 0), VI(3, 0), VI(0, 4), VI(3, 4)}
CallRadii == {R(1), <<5, 2>>, R(3)}
CircleCalls ==
    {[name |-> "circle_vs_circle", a |-> a, ra |-> ra, b |-> b, rb |-> rb] :
        a \in Centres, ra \in CallRadii, b \in Centres, rb \in CallRadii}
RectCalls ==
    {[name |-> "rect_vs_rect", ax |-> RZero, ay |-> RZero, aw |-> R(4),
      ah |-> ah, bx |-> bx, by |-> by, bw |-> R(4), bh |-> R(4)] :
        ah \in {R(2), R(4)}, bx \in {R(-2), R(2), R(3), R(4)},
        by \in {R(-2), R(2), R(3)}}
ResolveCalls ==
    {[name |-> "resolve_rect_vs_static",
      body |-> RigidBody(Vec2(x, y), Vec2(vx, vy), ROne, RZero, RZero, FALSE),
      width |-> R(20), height |-> R(30),
      rect |-> [x |-> R(100), y |-> R(100), w |-> R(200), h |-> R(20)]] :
        x \in {R(94), R(95), R(150)}, y \in {R(80), R(90), R(110), R(125)},
        vx \in {RZero, R(30)}, vy \in {R(-50), RZero, R(120)}}

NoResult == [ab |-> None, ba |-> None]

CircleAB ==
    /\ op.name = "circle_vs_circle"
    /\ ret.ab = None
    /\ ret' = [ret EXCEPT !.ab = Some(circle_vs_circle(op.a, op.ra, op.b, op.rb))]

CircleBA ==
    /\ op.name = "circle_vs_circle"
    /\ ret.ba = None
    /\ ret' = [ret EXCEPT !.ba = Some(circle_vs_circle(op.b, op.rb, op.a, op.ra))]

RectVsRect ==
    /\ op.name = "rect_vs_rect"
    /\ ret.ab = None
    /\ ret' = [ret EXCEPT !.ab = Some(rect_vs_rect(op.ax, op.ay, op.aw, op.ah,
                                                   op.bx, op.by, op.bw, op.bh))]

ResolveRect ==
    /\ op.name = "resolve_rect_vs_static"
    /\ ret.ab = None
    /\ ret' = [ret EXCEPT !.ab = Some(resolve_rect_vs_static(
                                          op.body, op.width, op.height,
                                          <<op.rect>>, R(4), <<1, 100>>))]

InitGeometry ==
    /\ EngineUnused
    /\ SoundIdle
    /\ op \in CircleCalls \cup RectCalls \cup ResolveCalls
    /\ ret = NoResult
    /\ player = <<>>
    /\ boss = <<>>
    /\ enemies = <<>>
    /\ platforms = <<>>
    /\ next_id = 1
    /\ frames = 0
    /\ game = <<>>

geometryIdle == UNCHANGED <<engineVars, raised, soundVars, op, player, boss,
                            enemies, platforms, next_id, frames, game>>

NextGeometry ==
    \/ CircleAB /\ geometryIdle
    \/ CircleBA /\ geometryIdle
    \/ RectVsRect /\ geometryIdle
    \/ ResolveRect /\ geometryIdle

SpecGeometry == InitGeometry /\ [][NextGeometry]_vars

\* C17: a body that falls (velocity.y > 0), passes the padded horizontal
\* test against the platform, overlaps it vertically and is closer to its top
\* than to its bottom comes out of resolve_rect_vs_static with
\* position.y = platformY - height/2 - epsilon, velocity.y = 0 and grounded.
C17_LandsOnTop ==
    (op.name = "resolve_rect_vs_static" /\ ret.ab # None) =>
        LET px == RSub(op.body.position.x, RDiv(op.width, R(2)))
            py == RSub(op.body.position.y, RDiv(op.height, R(2)))
            pad == RMin(R(4), RMul(op.width, <<2, 5>>))
        IN  (/\ RLt(RZero, op.body.velocity.y)
             /\ RLt(RAdd(px, pad), RAdd(op.rect.x, op.rect.w))
             /\ RLt(op.rect.x, RSub(RAdd(px, op.width), pad))
             /\ RLt(py, RAdd(op.rect.y, op.rect.h))
             /\ RLt(op.rect.y, RAdd(py, op.height))
             /\ RLt(RSub(RAdd(py, op.height), op.rect.y),
                    RSub(RAdd(op.rect.y, op.rect.h), py))) =>
                /\ ret.ab[1].body.position.y =
                       RSub(RSub(op.rect.y, RDiv(op.height, R(2))), <<1, 100>>)
                /\ ret.ab[1].body.velocity.y = RZero
                /\ ret.ab[1].grounded

\* a body falling at 120 with its lower edge 5 into the platform has landed
C17_Witness ==
    /\ op.name = "resolve_rect_vs_static"
    /\ op.body.position = VI(95, 90)
    /\ op.body.velocity.y = R(120)
    /\ ret.ab # None
    /\ ret.ab[1].grounded
    /\ ret.ab[1].body.position.y = <<8499, 100>>

\* C18: two rects whose X overlap and Y overlap are positive and equal give
\* a hit with a normal along Y and the Y overlap as depth.
C18_TieResolvesOnY ==
    (op.name = "rect_vs_rect" /\ ret.ab # None) =>
        LET ox == RSub(RMin(RAdd(op.ax, op.aw), RAdd(op.bx, op.bw)),
                       RMax(op.ax, op.bx))
            oy == RSub(RMin(RAdd(op.ay, op.ah), RAdd(op.by, op.bh)),
                       RMax(op.ay, op.by))
        IN  (ox = oy /\ RLt(RZero, ox)) =>
               /\ ret.ab[1].hit
               /\ ret.ab[1].normal # None
               /\ ret.ab[1].normal[1].x = RZero
               /\ ret.ab[1].normal[1].y \in {R(1), R(-1)}
               /\ ret.ab[1].depth = oy

\* the rects (0,0,4,4) and (-2,2,4,4) overlap by 2 on both axes
C18_Witness ==
    /\ op.name = "rect_vs_rect"
    /\ op.ah = R(4) /\ op.bx = R(-2) /\ op.by = R(2)
    /\ ret.ab # None
    /\ ret.ab[1].hit
    /\ ret.ab[1].depth = R(2)

\* C19: the two orders of circle_vs_circle agree on hit, which is true
\* exactly when the centres are apart by more than 0 and less than rA + rB;
\* on a hit the depths are equal and the normals opposite.
C19_CirclesSymmetric ==
    (op.name = "circle_vs_circle" /\ ret.ab # None /\ ret.ba # None) =>
        LET dsq == Vec2_length_squared(Vec2_sub(op.b, op.a))
            reach == RAdd(op.ra, op.rb)
            ab == ret.ab[1]
            ba == ret.ba[1]
        IN  /\ ab.hit = (RLt(RZero, dsq) /\ RLt(dsq, RMul(reach, reach)))
            /\ ba.hit = ab.hit
            /\ ab.hit => /\ ab.depth = ba.depth
                         /\ ab.normal # None /\ ba.normal # None
                         /\ ab.normal[1] = Vec2_mul(ba.normal[1], R(-1))

\* circles of radius 3 and 5/2 at (0,0) and (3,4), 5 apart, tested both ways
C19_Witness ==
    /\ op.name = "circle_vs_circle"
    /\ op.a = VI(0, 0) /\ op.b = VI(3, 4)
    /\ op.ra = R(3) /\ op.rb = <<5, 2>>
    /\ ret.ab # None /\ ret.ba # None
    /\ ret.ab[1].hit
    /\ ret.ab[1].depth = <<1, 2>>
    /\ ret.ba[1].normal = Some(Vec2(<<-3, 5>>, <<-4, 5>>))


(***************************************************************************)
(* More claims about the collision world.                                  *)
(***************************************************************************)
\* C23: resolve_collision completes without raising for every hit and every
\* pair of bodies, a pair of two static bodies included: no check_and_resolve
\* sweep ends with an exception.
C23_ResolveNeverRaises == op.name = "check_and_resolve" => ~raised


(***************************************************************************)
(* More claims about the physics world.                                    *)
(***************************************************************************)
\* the bodies PhysicsWorld.update hands to RigidBody.update exactly once with
\* nothing to accelerate them: on the list once, not static, no acceleration
\* pending, no gravity, a drag strictly between 0 and 1, a velocity not zero
Coasting == {id \in Ids :
                /\ Cardinality({k \in 1..Len(phys_bodies) :
                                    phys_bodies[k] = id}) = 1
                /\ ~bodies[id].is_static
                /\ bodies[id].acceleration = VZero
                /\ gravity = VZero
                /\ RLt(RZero, bodies[id].drag) /\ RLt(bodies[id].drag, ROne)
                /\ bodies[id].velocity # VZero}

\* C22: RigidBody.update(dt) of a non-static body with zero acceleration, a
\* drag d with 0 < d < 1 and a velocity that is not zero leaves each velocity
\* component at the old one times (1 - d): the speed has become strictly
\* smaller and the direction is the same.
C22_DragSlowsDown ==
    [][op'.name = "update" =>
          \A id \in Coasting :
             LET v == bodies[id].velocity
                 w == bodies'[id].velocity
                 d == bodies[id].drag
             IN  /\ w.x = RMul(v.x, RSub(ROne, d))
                 /\ w.y = RMul(v.y, RSub(ROne, d))
                 /\ RLt(Vec2_length_squared(w), Vec2_length_squared(v))
                 /\ RSub(RMul(v.x, w.y), RMul(v.y, w.x)) = RZero
                 /\ RLt(RZero, Vec2_dot(v, w))]_vars

\* two updates with dt > 0 have slowed a body of drag 1/2 down from (-2, 4)
\* to (-1/2, 1), with no force or impulse applied in between
C22_Witness ==
    /\ op.name = "update"
    /\ RLt(RZero, op.dt)
    /\ steps = 2
    /\ gravity = VZero
    /\ \E id \in Ids : /\ InList(phys_bodies, id)
                       /\ bodies[id].drag = <<1, 2>>
                       /\ bodies[id].velocity = Vec2(<<-1, 2>>, ROne)


(***************************************************************************)
(* circle_vs_rect and resolve_rect_vs_static called on their own.  A state *)
(* holds one call (op, drawn at the start) and what it returned (ret, None *)
(* before the call): circle_vs_rect on a circle whose centre lies in, on   *)
(* or left of an 8 x 6 rectangle; resolve_rect_vs_static on a 20 x 30 body *)
(* and a list of up to two of four rects: two floor pieces that share a    *)
(* seam, a floor 4 lower that spans both, and a ceiling 20 above them.     *)
(***************************************************************************)
CircleRectCalls ==
    {[name |-> "circle_vs_rect", circle_pos |-> Vec2(R(x), R(y)),
      radius |-> r, rect_x |-> RZero, rect_y |-> RZero,
      rect_w |-> R(8), rect_h |-> R(6)] :
        x \in {-1, 0, 1, 3, 4, 5, 7, 8}, y \in {0, 1, 3, 5, 6},
        r \in {RZero, ROne, <<5, 2>>}}

StaticRects ==
    {[x |-> R(100), y |-> R(100), w |-> R(60), h |-> R(20)],
     [x |-> R(160), y |-> R(100), w |-> R(60), h |-> R(20)],
     [x |-> R(100), y |-> R(104), w |-> R(120), h |-> R(20)],
     [x |-> R(100), y |-> R(60), w |-> R(120), h |-> R(20)]}

RectLists ==
    {<<>>} \cup {<<r>> : r \in StaticRects}
           \cup {<<pair[1], pair[2]>> :
                     pair \in {pq \in StaticRects \X StaticRects :
                                  pq[1] # pq[2]}}

StaticCalls ==
    {[name |-> "resolve_rect_vs_static",
      body |-> RigidBody(Vec2(x, y), Vec2(vx, vy), ROne, RZero, RZero, FALSE),
      width |-> R(20), height |-> R(30), static_rects |-> rs,
      padding |-> pad, epsilon |-> eps] :
        x \in {R(150), R(158)}, y \in {R(90), R(93)},
        vx \in {RZero, R(30)}, vy \in {R(-50), R(120)},
        rs \in RectLists, pad \in {RZero, R(4)}, eps \in {RZero, <<1, 100>>}}

CircleVsRect ==
    /\ op.name = "circle_vs_rect"
    /\ ret = None
    /\ ret' = Some(circle_vs_rect(op.circle_pos, op.radius, op.rect_x,
                                  op.rect_y, op.rect_w, op.rect_h))

ResolveRects ==
    /\ op.name = "resolve_rect_vs_static"
    /\ ret = None
    /\ ret' = Some(resolve_rect_vs_static(op.body, op.width, op.height,
                                          op.static_rects, op.padding,
                                          op.epsilon))

InitCalls ==
    /\ EngineUnused
    /\ SoundIdle
    /\ op \in CircleRectCalls \cup StaticCalls
    /\ ret = None
    /\ player = <<>>
    /\ boss = <<>>
    /\ enemies = <<>>
    /\ platforms = <<>>
    /\ next_id = 1
    /\ frames = 0
    /\ game = <<>>

NextCalls ==
    \/ CircleVsRect /\ geometryIdle
    \/ ResolveRects /\ geometryIdle

SpecCalls == InitCalls /\ [][NextCalls]_vars

\* the edge the claim picks for a centre at (dl, dr, dt, db) from the four
\* edges: the nearest, the first in the order left, right, top, bottom
NearestEdge(dl, dr, dt, db) ==
    LET m == RMin(RMin(dl, dr), RMin(dt, db))
    IN  IF dl = m THEN [normal |-> VI(-1, 0), dist |-> dl]
        ELSE IF dr = m THEN [normal |-> VI(1, 0), dist |-> dr]
        ELSE IF dt = m THEN [normal |-> VI(0, -1), dist |-> dt]
        ELSE [normal |-> VI(0, 1), dist |-> db]

\* C24: with the circle's centre inside or on the rectangle and a positive
\* radius, circle_vs_rect returns a hit whose normal points to the nearest of
\* the four edges, the first in the order left, right, top, bottom when the
\* distances tie, and whose depth is the radius plus the distance to it.
C24_NearestEdgeWins ==
    (op.name = "circle_vs_rect" /\ ret # None) =>
        LET c == op.circle_pos
            dl == RSub(c.x, op.rect_x)
            dr == RSub(RAdd(op.rect_x, op.rect_w), c.x)
            dt == RSub(c.y, op.rect_y)
            db == RSub(RAdd(op.rect_y, op.rect_h), c.y)
            edge == NearestEdge(dl, dr, dt, db)
        IN  (/\ RLe(RZero, dl) /\ RLe(RZero, dr)
             /\ RLe(RZero, dt) /\ RLe(RZero, db)
             /\ RLt(RZero, op.radius)) =>
                /\ ret[1].hit
                /\ ret[1].normal = Some(edge.normal)
                /\ ret[1].depth = RAdd(op.radius, edge.dist)

\* a centre as near to the left edge as to the top and the bottom one, and
\* further from the right one: the hit points left
C24_Witness ==
    /\ op.name = "circle_vs_rect"
    /\ op.circle_pos = VI(3, 3)
    /\ op.radius = ROne
    /\ ret # None
    /\ ret[1].hit
    /\ ret[1].normal = Some(VI(-1, 0))
    /\ ret[1].depth = R(4)

\* the two candidate tests and snap positions of resolve_rect_vs_static for a
\* width x height body centred at (x, y) and the rect r, as its pass 1 (Y) and
\* its pass 2 (X) have them
CandidateY(x, y, r, width, height, pad_x) ==
    /\ RLt(RAdd(RSub(x, RDiv(width, R(2))), pad_x), RAdd(r.x, r.w))
    /\ RLt(r.x, RSub(RAdd(x, RDiv(width, R(2))), pad_x))
    /\ RLt(RSub(y, RDiv(height, R(2))), RAdd(r.y, r.h))
    /\ RLt(r.y, RAdd(y, RDiv(height, R(2))))
SnapY(y, r, height, epsilon) ==
    IF RLt(RSub(RAdd(y, RDiv(height, R(2))), r.y),
           RSub(RAdd(r.y, r.h), RSub(y, RDiv(height, R(2)))))
    THEN RSub(RSub(r.y, RDiv(height, R(2))), epsilon)
    ELSE RAdd(RAdd(RAdd(r.y, r.h), RDiv(height, R(2))), epsilon)
CandidateX(x, y, r, width, height, pad_y) ==
    /\ RLt(RAdd(RSub(y, RDiv(height, R(2))), pad_y), RAdd(r.y, r.h))
    /\ RLt(r.y, RSub(RAdd(y, RDiv(height, R(2))), pad_y))
    /\ RLt(RSub(x, RDiv(width, R(2))), RAdd(r.x, r.w))
    /\ RLt(r.x, RAdd(x, RDiv(width, R(2))))
SnapX(x, r, width, epsilon) ==
    IF RLt(RSub(RAdd(x, RDiv(width, R(2))), r.x),
           RSub(RAdd(r.x, r.w), RSub(x, RDiv(width, R(2)))))
    THEN RSub(RSub(r.x, RDiv(width, R(2))), epsilon)
    ELSE RAdd(RAdd(RAdd(r.x, r.w), RDiv(width, R(2))), epsilon)

\* the y the body has after the rects rs were applied in list order, each one
\* that is a Y-candidate at the body's position then snapping it
RECURSIVE LastSnapY(_, _, _, _, _, _, _)
LastSnapY(x, y, rs, width, height, pad_x, epsilon) ==
    IF rs = <<>> THEN y
    ELSE LastSnapY(x,
                   IF CandidateY(x, y, Head(rs), width, height, pad_x)
                   THEN SnapY(y, Head(rs), height, epsilon) ELSE y,
                   Tail(rs), width, height, pad_x, epsilon)
\* the same for x, on the X-candidates at the height y
RECURSIVE LastSnapX(_, _, _, _, _, _, _)
LastSnapX(x, y, rs, width, height, pad_y, epsilon) ==
    IF rs = <<>> THEN x
    ELSE LastSnapX(IF CandidateX(x, y, Head(rs), width, height, pad_y)
                   THEN SnapX(x, Head(rs), width, epsilon) ELSE x,
                   y, Tail(rs), width, height, pad_y, epsilon)

\* C25: resolve_rect_vs_static applies every Y-candidate in list order before
\* it tests any X-candidate, and tests the X-candidates at the y the Y pass
\* produced: the final y is the snap position of the last rect that was a
\* Y-candidate at the body's first x, the final x that of the last rect that
\* was an X-candidate at that final y, each unchanged if there was none.
C25_YPassThenXPass ==
    (op.name = "resolve_rect_vs_static" /\ ret # None) =>
        LET pad_x == RMin(op.padding, RMul(op.width, <<2, 5>>))
            pad_y == RMin(op.padding, RMul(op.height, <<2, 5>>))
            y2 == LastSnapY(op.body.position.x, op.body.position.y,
                            op.static_rects, op.width, op.height, pad_x,
                            op.epsilon)
            x2 == LastSnapX(op.body.position.x, y2, op.static_rects,
                            op.width, op.height, pad_y, op.epsilon)
        IN  /\ ret[1].body.position.y = y2
            /\ ret[1].body.position.x = x2

\* a body over the seam of the two floor pieces, 5 deep in both: the first
\* piece lifts it, and at that height the second one, which would have been
\* an X-candidate where the body started, is none
C25_Witness ==
    /\ op.name = "resolve_rect_vs_static"
    /\ op.body.position = VI(158, 90)
    /\ op.padding = R(4)
    /\ op.epsilon = <<1, 100>>
    /\ Len(op.static_rects) = 2
    /\ op.static_rects[1].x = R(100) /\ op.static_rects[1].w = R(60)
    /\ op.static_rects[2].x = R(160) /\ op.static_rects[2].y = R(100)
    /\ CandidateX(R(158), R(90), op.static_rects[2], R(20), R(30), R(4))
    /\ ret # None
    /\ ret[1].body.position = Vec2(R(158), <<8499, 100>>)

\* C28: resolve_rect_vs_static never returns grounded and hit_ceiling both
\* true, whatever the body, the rect list, the padding and the epsilon.
C28_GroundedXorCeiling ==
    (op.name = "resolve_rect_vs_static" /\ ret # None) =>
        ~(ret[1].grounded /\ ret[1].hit_ceiling)

\* a rising body that the floor lifted first and the ceiling then pushed
\* back down: it hit the ceiling and is not grounded
C28_Witness ==
    /\ op.name = "resolve_rect_vs_static"
    /\ RLt(op.body.velocity.y, RZero)
    /\ Len(op.static_rects) = 2
    /\ op.static_rects[1].y = R(100)
    /\ op.static_rects[2].y = R(60)
    /\ ret # None
    /\ ret[1].hit_ceiling
    /\ ~ret[1].grounded
    /\ ret[1].body.velocity.y = RZero
    /\ RLt(R(80), RSub(ret[1].body.position.y, R(15)))
    /\ ret[1].body.position.y # op.body.position.y


(***************************************************************************)
(* More claims about the boss.                                             *)
(***************************************************************************)
\* C26: over any sequence of updates, dash hits and freezes rage_boost is
\* never below -0.5, and the decay of 0.03 per second never takes it below
\* its floor of 0.1 by itself: an update that decays a rage_boost above 0.1
\* leaves it at 0.1 or more (not counting the 0.12 of a hit in that update).
C26_RageBoostFloors ==
    [][boss' # None =>
          /\ RLe(<<-1, 2>>, boss'[1].rage_boost)
          /\ (/\ op'.name = "boss_update"
              /\ Active
              /\ RLt(<<1, 10>>, boss[1].rage_boost)) =>
                 RLe(<<1, 10>>,
                     RSub(boss'[1].rage_boost,
                          IF ret' = 1 THEN <<3, 25>> ELSE RZero))]_vars

\* C27: while freeze_timer > 0, Boss.update changes no field of the boss but
\* freeze_timer (hp, rage, rage_boost, attack_timer, is_dead and the body's
\* velocity stay) and returns no hit, also when the dashing player is within
\* the strike range r + 25.
C27_FrozenBossUntouched ==
    [][(op'.name = "boss_update" /\ RLt(RZero, boss[1].freeze_timer)) =>
          /\ boss' # None
          /\ \A f \in DOMAIN boss[1] \ {"freeze_timer"} :
                boss'[1][f] = boss[1][f]
          /\ boss'[1].body.velocity = boss[1].body.velocity
          /\ ret' = 0]_vars

\* the boss, at full hp and still frozen after an update in which the player
\* dashed 60 away from it
C27_Witness ==
    /\ op.name = "boss_update"
    /\ boss # None
    /\ RLt(RZero, boss[1].freeze_timer)
    /\ player.is_dashing
    /\ LengthLt(Vec2_sub(boss[1].body.position, player.position),
                RAdd(boss[1].r, R(25)))
    /\ boss[1].hp = 300
    /\ ret = 0


(***************************************************************************)
(* The dash of the player (src/game/player.py): handle_input starts it,    *)
(* update_velocity counts dash_timer and dash_cooldown down.  The rest of  *)
(* update_velocity (walking, jumping) is left after the early return of a  *)
(* dash and touches none of the three dash fields.  game remembers the     *)
(* accumulated dt: since_start and since_end since the last start and the  *)
(* last end of a dash, gap and period what the two were when the next dash *)
(* started.                                                                *)
(***************************************************************************)
MaxDashCalls == 8

dash_duration == <<1, 5>>
dash_cooldown == <<4, 5>>

MemoryPlayer_handle_input_unguarded(p, shift) ==
    IF shift
    THEN [p EXCEPT !.is_dashing = TRUE, !.dash_timer = dash_duration,
                   !.dash_cooldown = dash_cooldown]
    ELSE p

\* a pressed shift key with a dash_cooldown that is not <= 0 starts nothing
MemoryPlayer_handle_input(p, shift) ==
    IF shift /\ RLe(p.dash_cooldown, RZero)
    THEN [p EXCEPT !.is_dashing = TRUE, !.dash_timer = dash_duration,
                   !.dash_cooldown = dash_cooldown]
    ELSE p

\* update_velocity up to the return of the dash
MemoryPlayer_update_velocity_dt(p, dt) ==
    LET p1 == MemoryPlayer_update_velocity(p)
        p2 == [p1 EXCEPT !.dash_cooldown =
                   IF RLt(RZero, @) THEN RSub(@, dt) ELSE @]
        timer == RSub(p2.dash_timer, dt)
    IN  IF p2.is_dashing
        THEN [p2 EXCEPT !.dash_timer = timer,
                        !.is_dashing = ~RLe(timer, RZero)]
        ELSE p2

DashDts == {<<1, 10>>, <<3, 20>>, <<2, 5>>}

Elapsed(t, dt) == IF t = None THEN None ELSE Some(RAdd(t[1], dt))

HandleInput ==
    \E shift \in BOOLEAN :
        /\ frames < MaxDashCalls
        /\ frames' = frames + 1
        /\ op' = [name |-> "handle_input", shift |-> shift]
        /\ player' = MemoryPlayer_handle_input(player, shift)
        /\ game' = IF player' # player
                   THEN [game EXCEPT !.since_start = Some(RZero),
                                     !.gap = game.since_end,
                                     !.period = game.since_start]
                   ELSE game

UpdateVelocity ==
    \E dt \in DashDts :
        /\ frames < MaxDashCalls
        /\ frames' = frames + 1
        /\ op' = [name |-> "update_velocity", dt |-> dt]
        /\ player' = MemoryPlayer_update_velocity_dt(player, dt)
        /\ game' = [game EXCEPT
                       !.since_start = Elapsed(@, dt),
                       !.since_end = IF player.is_dashing /\ ~player'.is_dashing
                                     THEN Some(RZero)
                                     ELSE Elapsed(@, dt)]

InitDash ==
    /\ EngineUnused
    /\ SoundIdle
    /\ op = [name |-> "init"]
    /\ ret = None
    /\ player = MemoryPlayer(VI(100, 580), 1)
    /\ boss = <<>>
    /\ enemies = <<>>
    /\ platforms = <<>>
    /\ next_id = 1
    /\ frames = 0
    /\ game = [since_start |-> None, since_end |-> None, gap |-> None,
               period |-> None]

dashIdle == UNCHANGED <<engineVars, raised, soundVars, boss, enemies,
                        platforms, ret, next_id>>

NextDash ==
    \/ HandleInput /\ dashIdle
    \/ UpdateVelocity /\ dashIdle

SpecDash == InitDash /\ [][NextDash]_vars

\* a call of handle_input started a dash
DashStarted == op'.name = "handle_input" /\ player' # player

\* the three parts of C29 that do not speak of the pause between two dashes
DashRules ==
    /\ DashStarted => RLe(player.dash_cooldown, RZero) /\ ~player.is_dashing
    /\ player'.is_dashing =>
          /\ RSub(player'.dash_cooldown, player'.dash_timer) = <<3, 5>>
          /\ RLt(game'.since_start[1], dash_duration)
    /\ (game'.since_start # None /\ RLe(dash_duration, game'.since_start[1]))
          => ~player'.is_dashing

MaxTicks == 2

\* CorruptionManager.update: the shatter timer
CorruptionManager_update(shatter_timer, dt) ==
    IF RLt(RZero, shatter_timer) THEN RSub(shatter_timer, dt)
    ELSE shatter_timer

\* CorruptionManager.trigger_shatter
trigger_shatter == <<7, 2>>

\* the memory check of the PLAYING tick
memory_check(g, p) ==
    IF RLe(p.memory, RZero)
    THEN [g EXCEPT !.state = "SHATTERING", !.shatter_timer = trigger_shatter]
    ELSE g

\* _reset_with_loss; jitter moves the platforms of the level, extra are the
\* 2 + loss_iteration platforms added at random places
MemoryParasiteGame_reset_with_loss(g, p, plats, em, jitter, extra) ==
    [game |-> [g EXCEPT !.loss_iteration = @ + 1, !.state = "PLAYING"],
     player |-> [p EXCEPT !.memory = RMul(p.max_mem, <<3, 4>>),
                          !.position = VI(100, 620)],
     platforms |-> [k \in 1..Len(plats) |->
                       [plats[k] EXCEPT !.is_lost = TRUE,
                                        !.x = RAdd(@, jitter.x),
                                        !.y = RAdd(@, jitter.y)]]
                   \o [k \in 1..(2 + g.loss_iteration + 1) |->
                          [Platform(Len(plats) + k, extra[1], extra[2],
                                    extra[3], 20, None)
                             EXCEPT !.is_lost = TRUE]],
     em |-> EnemyManager_reset_for_death(em, TRUE)]

\* the memory the player has left when the tick begins
LowMemories == {<<1, 4>>, R(10), R(30)}
\* where the player is after the integration: next to the first ghost or in
\* reach of the boss
TickPositions == {VI(640, 575), VI(640, 260)}
Doors == {"none", "EXIT", "level"}
PlatformJitters == {VI(0, 0), VI(40, -30)}
ExtraPlatforms == {<<200, 300, 100>>}

\* the tick of the state PLAYING
OnUpdatePlaying(dt, shift, pos, noise, head_bang, door, spark) ==
    /\ game.state = "PLAYING"
    /\ frames < MaxTicks
    /\ frames' = frames + 1
    /\ \E p1 \in {MemoryPlayer_update_velocity_dt(
                      MemoryPlayer_handle_input(player, shift), dt)} :
       \E p2 \in {[p1 EXCEPT !.position = pos,
                             !.memory = RSub(RSub(@, dt),
                                             IF head_bang THEN R(10)
                                             ELSE RZero)]} :
          IF door = "EXIT"
          THEN /\ player' = p2
               /\ game' = [game EXCEPT !.stages =
                              <<"handle_input", "update_velocity",
                                "phys.update", "resolve_level_collision">>]
               /\ op' = [name |-> "on_update", state |-> "PLAYING",
                         dt |-> dt, door |-> door, spark |-> spark,
                         memory_at_check |-> None, removed |-> {}]
               /\ UNCHANGED <<boss, enemies, platforms, phys_bodies, ret>>
          ELSE
          \E r \in {EnemyManager_update([boss |-> boss, enemies |-> enemies,
                                         phys |-> phys_bodies],
                                        dt, p2, platforms, rnd, noise) :
                       rnd \in IF boss = None
                               THEN {Rnd(VI(640, 300), NoSchedule, NoGlitch)}
                               ELSE BossRnd(boss[1], dt, p2)} :
          \E p3 \in {take_damage(r.player, r.res.events)} :
          \E died \in {r.res.boss_hit /\ r.boss = None} :
          \E g1 \in {[game EXCEPT
                        !.state = IF died THEN "BOSS_DEATH"
                                  ELSE IF door = "level" THEN "TRANSITIONING"
                                  ELSE @,
                        !.stages = <<"handle_input", "update_velocity",
                                     "phys.update", "resolve_level_collision",
                                     "enemies.update">>]} :
          \E p4 \in {IF died THEN [p3 EXCEPT !.position = VI(640, 570)]
                     ELSE p3} :
          \E g2 \in {memory_check(g1, p4)} :
             /\ boss' = r.boss
             /\ phys_bodies' = r.phys
             /\ ret' = r.res
             /\ enemies' = IF died THEN <<>> ELSE r.enemies
             /\ platforms' = IF died THEN <<>> ELSE platforms
             /\ game' = [g2 EXCEPT !.shatter_timer =
                                       CorruptionManager_update(@, dt)]
             /\ player' = [p4 EXCEPT !.memory =
                              IF spark THEN RSub(@, R(30)) ELSE @]
             /\ op' = [name |-> "on_update", state |-> "PLAYING", dt |-> dt,
                       door |-> door, spark |-> spark,
                       memory_at_check |-> Some(p4.memory), removed |-> {}]
    /\ UNCHANGED next_id

\* the tick of the state SHATTERING; these ticks are not counted in frames,
\* there are finitely many of them in a row
OnUpdateShattering(dt, jitter, extra) ==
    /\ game.state = "SHATTERING"
    /\ \E g1 \in {[game EXCEPT !.shatter_timer =
                                   CorruptionManager_update(@, dt),
                               !.stages = <<>>]} :
          IF RLe(g1.shatter_timer, RZero)
          THEN \E r \in {MemoryParasiteGame_reset_with_loss(
                            g1, player, platforms,
                            [boss |-> boss, enemies |-> enemies,
                             phys |-> phys_bodies], jitter, extra)} :
                  /\ game' = r.game
                  /\ player' = r.player
                  /\ platforms' = r.platforms
                  /\ boss' = r.em.boss
                  /\ enemies' = r.em.enemies
                  /\ phys_bodies' = r.em.phys
                  /\ op' = [name |-> "on_update", state |-> "SHATTERING",
                            dt |-> dt, door |-> "none", spark |-> FALSE,
                            memory_at_check |-> None,
                            removed |-> {enemies[k].bid :
                                            k \in 1..Len(enemies)}]
          ELSE /\ game' = g1
               /\ op' = [name |-> "on_update", state |-> "SHATTERING",
                         dt |-> dt, door |-> "none", spark |-> FALSE,
                         memory_at_check |-> None, removed |-> {}]
               /\ UNCHANGED <<player, platforms, boss, enemies, phys_bodies>>
    /\ UNCHANGED <<frames, ret, next_id>>

InitLoop ==
    /\ bodies = [i \in Ids |-> RigidBody(VZero, VZero, ROne, RZero, ROne, TRUE)]
    /\ gravity = VZero
    /\ circles = <<>>
    /\ rects = <<>>
    /\ tests = <<>>
    /\ steps = 0
    /\ raised = FALSE
    /\ SoundIdle
    /\ op = [name |-> "init"]
    /\ \E m \in LowMemories :
          player = [MemoryPlayer_update_velocity(MemoryPlayer(VI(100, 580), 1))
                       EXCEPT !.memory = m]
    /\ boss = Some(BossAfterShot)
    /\ enemies = <<Enemy(Centre(LevelPlatforms[1]), 3)>>
    /\ platforms = [LevelPlatforms EXCEPT ![1].is_lost = TRUE]
    /\ phys_bodies = <<1, 2, 3>>
    /\ next_id = 4
    /\ ret = [events |-> <<>>, noise_hit |-> FALSE, boss_hit |-> FALSE]
    /\ frames = 0
    /\ game = [state |-> "PLAYING", loss_iteration |-> 0,
               shatter_timer |-> RZero, stages |-> <<>>]

loopIdle == UNCHANGED <<bodies, gravity, circles, rects, tests, steps, raised,
                        soundVars>>

ShatteringTick ==
    \E dt \in GameDts, jitter \in PlatformJitters, extra \in ExtraPlatforms :
        OnUpdateShattering(dt, jitter, extra) /\ loopIdle

NextLoop ==
    \/ \E dt \in GameDts, shift \in BOOLEAN, pos \in TickPositions,
          noise \in Noises, head_bang \in BOOLEAN, door \in Doors,
          spark \in BOOLEAN :
          OnUpdatePlaying(dt, shift, pos, noise, head_bang, door, spark)
             /\ loopIdle
    \/ ShatteringTick

SpecLoop == InitLoop /\ [][NextLoop]_vars

\* the same behaviours when updates with dt > 0 keep coming
SpecLoopLive == SpecLoop /\ WF_vars(ShatteringTick)

\* C21: in every tick of the state PLAYING the subsystems run once each in
\* this order: input handling, velocity update of the player, integration of
\* all bodies, resolution of the player against the level, the all-pairs
\* sweep check_and_resolve of the CollisionWorld, update of boss and enemies.
C21_TickOrder ==
    (op.name = "on_update" /\ op.state = "PLAYING") =>
        game.stages = <<"handle_input", "update_velocity", "phys.update",
                        "resolve_level_collision", "check_and_resolve",
                        "enemies.update">>

\* a tick of the state PLAYING that ends with memory <= 0 ends in SHATTERING
ShattersAtZero ==
    (op'.name = "on_update" /\ op'.state = "PLAYING"
        /\ RLe(player'.memory, RZero)) => game'.state = "SHATTERING"

\* the tick that leaves SHATTERING leaves it for PLAYING with loss_iteration
\* one higher, memory at 75 % of max_mem, no ghost and the boss as it was
ReturnsWithLoss ==
    (game.state = "SHATTERING" /\ game'.state # "SHATTERING") =>
        /\ game'.state = "PLAYING"
        /\ game'.loss_iteration = game.loss_iteration + 1
        /\ player'.memory = RMul(player'.max_mem, <<3, 4>>)
        /\ enemies' = <<>>
        /\ \A k \in 1..Len(enemies) : ~InList(phys_bodies', enemies[k].bid)
        /\ boss' = boss

\* C30: a PLAYING tick that ends with memory <= 0 enters SHATTERING; every
\* SHATTERING episode returns to PLAYING when updates with dt > 0 keep
\* coming; on the return loss_iteration has grown by 1, memory is 75 % of
\* max_mem, the ghosts are gone and the boss is kept.
C30_ShatterCycle ==
    /\ [][ShattersAtZero]_vars
    /\ (game.state = "SHATTERING") ~> (game.state = "PLAYING")
    /\ [][ReturnsWithLoss]_vars

=============================================================================
